---------------------------- MODULE Spec2Model ----------------------------
(***************************************************************************)
(* State-machine model of the authentication / session lifecycle and the   *)
(* user registration of the POS & Warehouse API (AuthService, UserService, *)
(* PasswordUtils, JwtUtils).                                               *)
(*                                                                         *)
(* Every service method is an async function; each `await` on the store    *)
(* through prisma is a point where other requests may run.  A call is in   *)
(* a slot of `calls` and advances by one atomic store access per action;   *)
(* the synchronous code between two store accesses is part of the action   *)
(* of the store access that follows it.                                    *)
(*                                                                         *)
(* Strings that reach bcrypt are modelled as records [b72, rest]: b72 is   *)
(* the part of the string within its first 72 bytes, rest is what follows. *)
(* bcrypt.hash / bcrypt.compare use only the first 72 bytes of their       *)
(* input.                                                                  *)
(***************************************************************************)
EXTENDS Integers, Sequences, FiniteSets, TLC

\* ------------------------------------------------------------------ bounds
MaxRows == 3        \* UserRefreshToken rows ever inserted
MaxUsers == 4       \* User rows in the registration specification
MaxEntities == 4    \* ids ever taken in one entity table
MaxRequests == 2    \* largest maxRequests given to rateLimitPerUser
MaxWindow == 2      \* largest windowMs given to rateLimitPerUser
MaxClock == 4       \* largest value of Date.now() under the limiter

\* ------------------------------------------------------- program constants
RefreshTtl == 604800    \* JWT_REFRESH_EXPIRES_IN '7d', in seconds
AccessTtl == 86400      \* JWT_EXPIRES_IN '24h', in seconds
CleanupAge == 604800    \* 7 * 24 * 60 * 60 * 1000 ms, in seconds
MinPasswordLength == 8

Slots == {1, 2}

\* The instants at which the clock is read: two consecutive seconds, and one
\* more than seven days after both.
ClockValues == {0, 1, RefreshTtl + 2}

\* ------------------------------------------------------------ string model
Str(head, tail) == [b72 |-> head, rest |-> tail]
NoStr == Str(<<>>, <<>>)
Chars(s) == s.b72 \o s.rest

Lower == {"a","b","c","d","e","f","g","h","i","j","k","l","m","n","o","p","q","r","s","t","u","v","w","x","y","z"}
Upper == {"A","B","C","D","E","F","G","H","I","J","K","L","M","N","O","P","Q","R","S","T","U","V","W","X","Y","Z"}
Digit == {"0","1","2","3","4","5","6","7","8","9"}
Special == {"!","@","#","$","%","^","&","*","(",")",",",".","?","\"",":","{","}","|","<",">"}

PwA == Str(<<"P","a","s","s","w","0","r","d","!">>, <<>>)
PwB == Str(<<"S","e","c","r","e","t","9","#">>, <<>>)
PwWeak == Str(<<"w","e","a","k">>, <<>>)
Passwords == {PwA, PwB, PwWeak}

\* Passwords that break one strength rule each, and the empty password.
PwNoLower == Str(<<"P","A","S","S","W","0","R","D","!">>, <<>>)
PwNoUpper == Str(<<"p","a","s","s","w","0","r","d","!">>, <<>>)
PwNoDigit == Str(<<"P","a","s","s","w","o","r","d","!">>, <<>>)
PwNoSpecial == Str(<<"P","a","s","s","w","0","r","d","X">>, <<>>)
PwShort == Str(<<"P","w","0","!">>, <<>>)
StrengthSamples == {PwA, PwWeak, PwNoLower, PwNoUpper, PwNoDigit, PwNoSpecial, PwShort, NoStr}

\* --------------------------------------------------------- PasswordUtils
\* bcrypt.hash(plain, 12): the digest depends on the first 72 bytes only.
\* The random salt is left out: no operation of the program reads it other
\* than bcrypt.compare, which recomputes the digest with the stored salt.
hashPassword(plainPassword) == [digest |-> plainPassword.b72]

\* bcrypt.compare(plain, hashed)
verifyPassword(plainPassword, hashedPassword) ==
    plainPassword.b72 = hashedPassword.digest

\* Array.prototype.join: the elements with the separator between them.
join(parts, separator) ==
    LET F[i \in 0..Len(parts)] ==
            IF i = 0 THEN <<>>
            ELSE IF i = 1 THEN <<parts[1]>>
            ELSE F[i-1] \o <<separator, parts[i]>>
    IN F[Len(parts)]

SelectErrors(checks) ==
    LET F[i \in 0..Len(checks)] ==
            IF i = 0 THEN <<>>
            ELSE IF checks[i][1] THEN Append(F[i-1], checks[i][2]) ELSE F[i-1]
    IN F[Len(checks)]

\* Variant: the digit rule is not checked.
validatePasswordStrength_NoDigitRule(password) ==
    LET cs == Chars(password)
        has(S) == \E i \in 1..Len(cs) : cs[i] \in S
        errors == SelectErrors(<<
            <<Len(cs) < MinPasswordLength, "Password must be at least 8 characters long">>,
            <<~has(Lower), "Password must contain at least one lowercase letter">>,
            <<~has(Upper), "Password must contain at least one uppercase letter">>,
            <<~has(Special), "Password must contain at least one special character">> >>)
    IN [isValid |-> Len(errors) = 0, errors |-> errors]

validatePasswordStrength(password) ==
    LET cs == Chars(password)
        has(S) == \E i \in 1..Len(cs) : cs[i] \in S
        errors == SelectErrors(<<
            <<Len(cs) < MinPasswordLength, "Password must be at least 8 characters long">>,
            <<~has(Lower), "Password must contain at least one lowercase letter">>,
            <<~has(Upper), "Password must contain at least one uppercase letter">>,
            <<~has(Digit), "Password must contain at least one number">>,
            <<~has(Special), "Password must contain at least one special character">> >>)
    IN [isValid |-> Len(errors) = 0, errors |-> errors]

\* ---------------------------------------------------------------- JwtUtils
\* jwt.sign(payload, secret, {expiresIn, issuer, audience}) with HS256 is a
\* function of the payload and of the clock in whole seconds (iat, exp):
\*   base64url({"alg":"HS256","typ":"JWT"}) "." base64url(payload) "." mac
\* The header and the dot take 37 characters, so the first 72 bytes end 26
\* bytes into the payload JSON {"userId":N,"email":"...: they hold the
\* userId and the first characters of the email, never role, code, iat, exp.
EmailHead(email) == email   \* the model's emails differ in their first characters

sign(payload, iat, ttl) ==
    Str(<<"eyJhbGciOiJIUzI1NiIsInR5cCI6IkpXVCJ9", payload.userId, EmailHead(payload.email)>>,
        <<payload.email, payload.role, payload.code, iat, iat + ttl, "mac">>)

generateAccessToken(payload, clock) == sign(payload, clock, AccessTtl)
generateRefreshToken(payload, clock) == sign(payload, clock, RefreshTtl)
generateTokenPair(payload, clock) ==
    [accessToken |-> generateAccessToken(payload, clock),
     refreshToken |-> generateRefreshToken(payload, clock)]
NoTokens == [accessToken |-> NoStr, refreshToken |-> NoStr]

IsJwt(token) == Len(token.b72) = 3 /\ Len(token.rest) = 6
decodeToken(token) ==
    [userId |-> token.b72[2], email |-> token.rest[1],
     role |-> token.rest[2], code |-> token.rest[3]]
\* jwt.verify: signature, then expiry (clock >= exp is expired)
verifyTokenOk(token, clock) ==
    IsJwt(token) /\ token.rest[6] = "mac" /\ clock < token.rest[5]

\* ------------------------------------------------------------------- state
VARIABLES
    users,          \* User rows (prisma.user)
    userSeq,        \* the last value taken from the sequence behind User.id
    refreshTokens,  \* UserRefreshToken rows in insertion order; the index is the row id
    now,            \* the clock, in seconds
    calls,          \* the service calls in flight, one per slot
    tables,         \* Bank, Branch and Color rows, by kind of entity
    tableSeq,       \* the last value taken from the sequence behind each table's id
    children,       \* the rows that reference an entity by its code
    limiter,        \* a rateLimitPerUser middleware: its arguments and its Map
    passed,         \* history: the requests the limiter handed to next()
    rowToken,       \* history: the refresh token each row was inserted for
    consumed,       \* history: tokens that a successful refreshToken consumed
    loggedOut,      \* history: tokens that were active when logout(userId, token) returned
    pwRevoked       \* history: tokens that were active when changePassword succeeded

vars == <<users, userSeq, refreshTokens, now, calls, tables, tableSeq, children, limiter, passed,
          rowToken, consumed, loggedOut, pwRevoked>>

NoUser == [id |-> 0, email |-> "", username |-> "", phone |-> "", code |-> "",
           role |-> "", password |-> [digest |-> <<>>]]
Alice == [id |-> 1, email |-> "alice@x.io", username |-> "alice", phone |-> "0811",
          code |-> "U001", role |-> "KASIR", password |-> hashPassword(PwA)]
Bob == [id |-> 2, email |-> "bobby@x.io", username |-> "bobby", phone |-> "0822",
        code |-> "U002", role |-> "SUPER_ADMIN", password |-> hashPassword(PwA)]
Emails == {"alice@x.io", "bobby@x.io", "carol@x.io"}

JwtPayload(user) ==
    [userId |-> user.id, email |-> user.email, role |-> user.role, code |-> user.code]

\* A token with a signature that was not made with JWT_SECRET.
ForgedToken ==
    Str(<<"eyJhbGciOiJIUzI1NiIsInR5cCI6IkpXVCJ9", 1, EmailHead("alice@x.io")>>,
        <<"alice@x.io", "KASIR", "U001", 0, RefreshTtl, "forged">>)

\* history: the refresh tokens returned to clients
issued == {rowToken[i] : i \in DOMAIN rowToken}

\* What a client can put into a request body as refreshToken.
Presentable == issued \cup {ForgedToken}

Idle ==
    [op |-> "idle", pc |-> "idle", status |-> "", message |-> "", details |-> <<>>,
     userId |-> 0, email |-> "", username |-> "", phone |-> "", code |-> "",
     password |-> NoStr, newPassword |-> NoStr,
     token |-> NoStr, rec |-> 0, recHash |-> [digest |-> <<>>], user |-> NoUser,
     newTokens |-> NoTokens, ids |-> {}, count |-> 0,
     preRows |-> <<>>, preUsers |-> {}, during |-> {}, again |-> FALSE,
     query |-> <<>>, maxLimit |-> 0, result |-> <<>>,
     kind |-> "", id |-> 0, data |-> <<>>, step |-> 0, existing |-> <<>>,
     preTables |-> <<>>, preChildren |-> {}, where |-> <<>>, pagination |-> <<>>,
     error |-> <<>>,
     role |-> "", header |-> [present |-> FALSE, chars |-> <<>>],
     route |-> [roles |-> {}, validateFirst |-> FALSE], issues |-> <<>>]

InFlight == {s \in Slots : calls[s].pc \notin {"idle", "done"}}

\* Rows that calls in flight will still insert; keeps the store within MaxRows.
Inserting == {s \in InFlight : calls[s].op \in {"login", "refreshToken"}}
CanInsert == Len(refreshTokens) + Cardinality(Inserting) < MaxRows

\* The call record at the start of a call: the store as the call finds it, and
\* the calls that are in flight at that moment.
Begin(s, op) ==
    [Idle EXCEPT !.op = op, !.pc = "begin", !.preRows = refreshTokens, !.preUsers = users,
                 !.during = InFlight \ {s}]

Fail(c, kind, message) == [c EXCEPT !.pc = "done", !.status = kind, !.message = message]
Succeed(c) == [c EXCEPT !.pc = "done", !.status = "ok"]

\* Variant: the filter on userId is dropped.
ActiveRows_AnyUser(userId) ==
    {i \in DOMAIN refreshTokens : ~refreshTokens[i].revoked}

\* where: { userId, revoked: false }
ActiveRows(userId) ==
    {i \in DOMAIN refreshTokens :
        refreshTokens[i].userId = userId /\ ~refreshTokens[i].revoked}

\* data: { revoked: true } on the rows with the given ids
Revoke(rows, ids) ==
    [i \in DOMAIN rows |-> IF i \in ids THEN [rows[i] EXCEPT !.revoked = TRUE] ELSE rows[i]]

\* Variant: the row is inserted already revoked.
NewRow_Revoked(userId, hashedToken) ==
    [userId |-> userId, hashedToken |-> hashedToken, revoked |-> TRUE, createdAt |-> now]

\* prisma.userRefreshToken.create({ data: { hashedToken, userId } })
NewRow(userId, hashedToken) ==
    [userId |-> userId, hashedToken |-> hashedToken, revoked |-> FALSE, createdAt |-> now]

\* ------------------------------------------------------------------- clock
\* Time passes between requests.
Tick ==
    /\ \A s \in Slots : calls[s].pc = "idle"
    /\ \E t \in ClockValues : t > now /\ now' = t
    /\ UNCHANGED <<users, userSeq, refreshTokens, calls, rowToken, consumed, loggedOut, pwRevoked>>
    /\ UNCHANGED <<tables, tableSeq, children, limiter, passed>>

\* ------------------------------------------------------- AuthService.login
\* Variant: an unknown email is reported as such.
login_findUnique_UserNotFound(s, email, password) ==
    /\ calls[s].pc = "idle"
    /\ CanInsert
    /\ LET c == [Begin(s, "login") EXCEPT !.email = email, !.password = password]
           found == {u \in users : u.email = email}
       IN  calls' = [calls EXCEPT ![s] =
                IF found = {}
                THEN Fail(c, "NotFoundError", "User not found")
                ELSE [c EXCEPT !.pc = "login_create", !.userId = (CHOOSE u \in found : TRUE).id,
                               !.user = CHOOSE u \in found : TRUE]]
    /\ UNCHANGED <<users, userSeq, refreshTokens, now, rowToken>>

login_findUnique(s, email, password) ==
    /\ calls[s].pc = "idle"
    /\ CanInsert
    /\ LET c == [Begin(s, "login") EXCEPT !.email = email, !.password = password]
           found == {u \in users : u.email = email}
       IN  calls' = [calls EXCEPT ![s] =
                IF found = {}
                THEN Fail(c, "AuthenticationError", "Invalid email or password")
                ELSE [c EXCEPT !.pc = "login_create", !.userId = (CHOOSE u \in found : TRUE).id,
                               !.user = CHOOSE u \in found : TRUE]]
    /\ UNCHANGED <<users, userSeq, refreshTokens, now, rowToken>>

login_create(s) ==
    /\ calls[s].pc = "login_create"
    /\ LET c == calls[s]
           tokens == generateTokenPair(JwtPayload(c.user), now)
       IN  IF ~verifyPassword(c.password, c.user.password)
           THEN /\ calls' = [calls EXCEPT ![s] =
                        Fail(c, "AuthenticationError", "Invalid email or password")]
                /\ UNCHANGED <<refreshTokens, rowToken>>
           ELSE /\ refreshTokens' = Append(refreshTokens,
                        NewRow(c.user.id, hashPassword(tokens.refreshToken)))
                /\ rowToken' = Append(rowToken, tokens.refreshToken)
                /\ calls' = [calls EXCEPT ![s] = Succeed([c EXCEPT !.newTokens = tokens])]
    /\ UNCHANGED <<users, userSeq, now>>

\* ------------------------------------------------ AuthService.refreshToken
refreshToken_findFirst(s, token) ==
    /\ calls[s].pc = "idle"
    /\ CanInsert
    /\ LET c == [Begin(s, "refreshToken") EXCEPT !.token = token]
           decoded == decodeToken(token)
       IN  IF ~verifyTokenOk(token, now)
           THEN calls' = [calls EXCEPT ![s] = Fail(c, "AuthenticationError", "Invalid token")]
           ELSE IF ActiveRows(decoded.userId) = {}
           THEN calls' = [calls EXCEPT ![s] =
                    Fail(c, "AuthenticationError", "Invalid refresh token")]
           ELSE \E i \in ActiveRows(decoded.userId) :
                    calls' = [calls EXCEPT ![s] =
                        [c EXCEPT !.pc = "refreshToken_update", !.rec = i,
                                  !.userId = decoded.userId,
                                  !.recHash = refreshTokens[i].hashedToken,
                                  !.user = CHOOSE u \in users : u.id = refreshTokens[i].userId]]
    /\ UNCHANGED <<users, userSeq, refreshTokens, now, rowToken>>

refreshToken_update(s) ==
    /\ calls[s].pc = "refreshToken_update"
    /\ LET c == calls[s] IN
       IF ~verifyPassword(c.token, c.recHash)
       THEN /\ calls' = [calls EXCEPT ![s] =
                    Fail(c, "AuthenticationError", "Invalid refresh token")]
            /\ UNCHANGED refreshTokens
       ELSE /\ refreshTokens' = Revoke(refreshTokens, {c.rec})
            /\ calls' = [calls EXCEPT ![s] =
                    [c EXCEPT !.pc = "refreshToken_create",
                              !.newTokens = generateTokenPair(JwtPayload(c.user), now)]]
    /\ UNCHANGED <<users, userSeq, now, rowToken>>

refreshToken_create(s) ==
    /\ calls[s].pc = "refreshToken_create"
    /\ LET c == calls[s] IN
       /\ refreshTokens' = Append(refreshTokens,
                NewRow(c.user.id, hashPassword(c.newTokens.refreshToken)))
       /\ rowToken' = Append(rowToken, c.newTokens.refreshToken)
       /\ calls' = [calls EXCEPT ![s] = Succeed(c)]
    /\ UNCHANGED <<users, userSeq, now>>

\* ------------------------------------------------------ AuthService.logout
\* The client sends the logout request it has just been answered once more.
Repeats(s, userId, token) ==
    /\ calls[s].pc = "done"
    /\ calls[s].op = "logout"
    /\ calls[s].userId = userId
    /\ calls[s].token = token

\* logout(userId, refreshToken) with a token: look up one active row
logout_findFirst(s, userId, token) ==
    /\ calls[s].pc = "idle" \/ Repeats(s, userId, token)
    /\ LET c == [Begin(s, "logout") EXCEPT
                    !.userId = userId, !.token = token,
                    !.again = Repeats(s, userId, token)]
       IN  IF ActiveRows(userId) = {}
           THEN calls' = [calls EXCEPT ![s] = Succeed(c)]
           ELSE \E i \in ActiveRows(userId) :
                    calls' = [calls EXCEPT ![s] =
                        [c EXCEPT !.pc = "logout_update", !.rec = i,
                                  !.recHash = refreshTokens[i].hashedToken]]
    /\ UNCHANGED <<users, userSeq, refreshTokens, now, rowToken>>

logout_update(s) ==
    /\ calls[s].pc = "logout_update"
    /\ LET c == calls[s] IN
       /\ refreshTokens' = IF verifyPassword(c.token, c.recHash)
                           THEN Revoke(refreshTokens, {c.rec})
                           ELSE refreshTokens
       /\ calls' = [calls EXCEPT ![s] = Succeed(c)]
    /\ UNCHANGED <<users, userSeq, now, rowToken>>

\* logout(userId) without a token: revoke every active row of the user
logout_updateMany(s, userId) ==
    /\ calls[s].pc = "idle"
    /\ refreshTokens' = Revoke(refreshTokens, ActiveRows(userId))
    /\ calls' = [calls EXCEPT ![s] = Succeed([Begin(s, "logoutAll") EXCEPT !.userId = userId])]
    /\ UNCHANGED <<users, userSeq, now, rowToken>>

\* ---------------------------------------------- AuthService.changePassword
changePassword_findUnique(s, userId, currentPassword, newPassword) ==
    /\ calls[s].pc = "idle"
    /\ LET c == [Begin(s, "changePassword") EXCEPT
                    !.userId = userId, !.password = currentPassword,
                    !.newPassword = newPassword]
           found == {u \in users : u.id = userId}
       IN  calls' = [calls EXCEPT ![s] =
                IF found = {}
                THEN Fail(c, "NotFoundError", "User not found")
                ELSE [c EXCEPT !.pc = "changePassword_update",
                               !.user = CHOOSE u \in found : TRUE]]
    /\ UNCHANGED <<users, userSeq, refreshTokens, now, rowToken>>

\* Variant: the strength of the new password is checked before the current
\* password is verified.
changePassword_update_StrengthFirst(s) ==
    /\ calls[s].pc = "changePassword_update"
    /\ LET c == calls[s]
           passwordValidation == validatePasswordStrength(c.newPassword)
       IN  IF ~passwordValidation.isValid
           THEN /\ calls' = [calls EXCEPT ![s] =
                        Fail(c, "ValidationError", "New password does not meet requirements")]
                /\ UNCHANGED <<users, userSeq>>
           ELSE IF ~verifyPassword(c.password, c.user.password)
           THEN /\ calls' = [calls EXCEPT ![s] =
                        Fail(c, "AuthenticationError", "Current password is incorrect")]
                /\ UNCHANGED <<users, userSeq>>
           ELSE IF verifyPassword(c.newPassword, c.user.password)
           THEN /\ calls' = [calls EXCEPT ![s] =
                        Fail(c, "ValidationError",
                             "New password must be different from current password")]
                /\ UNCHANGED <<users, userSeq>>
           ELSE /\ users' = {IF u.id = c.userId
                             THEN [u EXCEPT !.password = hashPassword(c.newPassword)]
                             ELSE u : u \in users}
                /\ calls' = [calls EXCEPT ![s] = [c EXCEPT !.pc = "changePassword_updateMany"]]
                /\ UNCHANGED userSeq
    /\ UNCHANGED <<refreshTokens, now, rowToken>>

changePassword_update(s) ==
    /\ calls[s].pc = "changePassword_update"
    /\ LET c == calls[s]
           passwordValidation == validatePasswordStrength(c.newPassword)
       IN  IF ~verifyPassword(c.password, c.user.password)
           THEN /\ calls' = [calls EXCEPT ![s] =
                        Fail(c, "AuthenticationError", "Current password is incorrect")]
                /\ UNCHANGED <<users, userSeq>>
           ELSE IF ~passwordValidation.isValid
           THEN /\ calls' = [calls EXCEPT ![s] =
                        Fail(c, "ValidationError", "New password does not meet requirements")]
                /\ UNCHANGED <<users, userSeq>>
           ELSE IF verifyPassword(c.newPassword, c.user.password)
           THEN /\ calls' = [calls EXCEPT ![s] =
                        Fail(c, "ValidationError",
                             "New password must be different from current password")]
                /\ UNCHANGED <<users, userSeq>>
           ELSE /\ users' = {IF u.id = c.userId
                             THEN [u EXCEPT !.password = hashPassword(c.newPassword)]
                             ELSE u : u \in users}
                /\ calls' = [calls EXCEPT ![s] = [c EXCEPT !.pc = "changePassword_updateMany"]]
                /\ UNCHANGED userSeq
    /\ UNCHANGED <<refreshTokens, now, rowToken>>

changePassword_updateMany(s) ==
    /\ calls[s].pc = "changePassword_updateMany"
    /\ refreshTokens' = Revoke(refreshTokens, ActiveRows(calls[s].userId))
    /\ calls' = [calls EXCEPT ![s] = Succeed(calls[s])]
    /\ UNCHANGED <<users, userSeq, now, rowToken>>

\* --------------------------------------------- AuthService.revokeAllTokens
revokeAllTokens(s, userId) ==
    /\ calls[s].pc = "idle"
    /\ refreshTokens' = Revoke(refreshTokens, ActiveRows(userId))
    /\ calls' = [calls EXCEPT ![s] =
            Succeed([Begin(s, "revokeAllTokens") EXCEPT !.userId = userId])]
    /\ UNCHANGED <<users, userSeq, now, rowToken>>

\* ---------------------------------------- AuthService.cleanupExpiredTokens
\* Variant: createdAt: { lte: ... }, a row of exactly the retention age is taken too.
cleanupExpiredTokens_findMany_Lte(s) ==
    /\ calls[s].pc = "idle"
    /\ LET c == Begin(s, "cleanupExpiredTokens")
           expiredTokens == {i \in DOMAIN refreshTokens :
                                /\ ~refreshTokens[i].revoked
                                /\ refreshTokens[i].createdAt <= now - CleanupAge}
       IN  calls' = [calls EXCEPT ![s] =
                IF expiredTokens = {}
                THEN Succeed([c EXCEPT !.count = 0])
                ELSE [c EXCEPT !.pc = "cleanupExpiredTokens_updateMany", !.ids = expiredTokens]]
    /\ UNCHANGED <<users, userSeq, refreshTokens, now, rowToken>>

cleanupExpiredTokens_findMany(s) ==
    /\ calls[s].pc = "idle"
    /\ LET c == Begin(s, "cleanupExpiredTokens")
           expiredTokens == {i \in DOMAIN refreshTokens :
                                /\ ~refreshTokens[i].revoked
                                /\ refreshTokens[i].createdAt < now - CleanupAge}
       IN  calls' = [calls EXCEPT ![s] =
                IF expiredTokens = {}
                THEN Succeed([c EXCEPT !.count = 0])
                ELSE [c EXCEPT !.pc = "cleanupExpiredTokens_updateMany", !.ids = expiredTokens]]
    /\ UNCHANGED <<users, userSeq, refreshTokens, now, rowToken>>

cleanupExpiredTokens_updateMany(s) ==
    /\ calls[s].pc = "cleanupExpiredTokens_updateMany"
    /\ refreshTokens' = Revoke(refreshTokens, calls[s].ids)
    /\ calls' = [calls EXCEPT ![s] = Succeed([calls[s] EXCEPT !.count = Cardinality(calls[s].ids)])]
    /\ UNCHANGED <<users, userSeq, now, rowToken>>

\* ------------------------------ AuthService.register / UserService.createUser
\* Both methods run the same code: findFirst over the four unique fields, the
\* field-by-field comparison with the row found, the password strength check,
\* then the insert.
Usernames == {"alice", "bobby", "carol"}
Phones == {"0811", "0822", "0833"}
Codes == {"U001", "U002", "U003"}

\* Inserts that calls in flight will still attempt; keeps User.id within MaxUsers.
Creating == {s \in InFlight : calls[s].op \in {"register", "createUser"}}
CanCreate == userSeq + Cardinality(Creating) < MaxUsers

create_findFirst(s, op, userData) ==
    /\ calls[s].pc = "idle"
    /\ CanCreate
    /\ LET c == [Begin(s, op) EXCEPT
                    !.email = userData.email, !.username = userData.username,
                    !.phone = userData.phone, !.code = userData.code,
                    !.password = userData.password]
           matches == {u \in users : \/ u.email = userData.email
                                     \/ u.username = userData.username
                                     \/ u.phone = userData.phone
                                     \/ u.code = userData.code}
           Conflict(existingUser) ==
                IF existingUser.email = userData.email
                THEN Fail(c, "ConflictError", "User with this email already exists")
                ELSE IF existingUser.username = userData.username
                THEN Fail(c, "ConflictError", "Username already taken")
                ELSE IF existingUser.phone = userData.phone
                THEN Fail(c, "ConflictError", "Phone number already registered")
                ELSE Fail(c, "ConflictError", "User code already exists")
       IN  IF matches # {}
           THEN \E existingUser \in matches :
                    calls' = [calls EXCEPT ![s] = Conflict(existingUser)]
           ELSE calls' = [calls EXCEPT ![s] =
                    IF ~validatePasswordStrength(userData.password).isValid
                    THEN [Fail(c, "ValidationError", "Password does not meet requirements")
                            EXCEPT !.details =
                                join(validatePasswordStrength(userData.password).errors, ", ")]
                    ELSE [c EXCEPT !.pc = "create"]]
    /\ UNCHANGED <<users, userSeq, refreshTokens, now, rowToken>>

register_findFirst(s, userData) == create_findFirst(s, "register", userData)
createUser_findFirst(s, userData) == create_findFirst(s, "createUser", userData)

\* Variant: the User table has no unique indexes.
user_create_NoUniqueIndex(s) ==
    /\ calls[s].pc = "create"
    /\ LET c == calls[s]
           newUser == [id |-> userSeq + 1, email |-> c.email,
                       username |-> c.username, phone |-> c.phone, code |-> c.code,
                       role |-> "KASIR", password |-> hashPassword(c.password)]
       IN  /\ users' = users \cup {newUser}
           /\ calls' = [calls EXCEPT ![s] = Succeed([c EXCEPT !.userId = newUser.id])]
    /\ userSeq' = userSeq + 1
    /\ UNCHANGED <<refreshTokens, now, rowToken>>

\* prisma.user.create; the unique indexes of the User table reject a duplicate.
\* The id comes from the sequence behind User.id, which advances for a rejected
\* insert as well.
user_create(s) ==
    /\ calls[s].pc = "create"
    /\ LET c == calls[s]
           duplicate == \E u \in users : \/ u.email = c.email \/ u.username = c.username
                                         \/ u.phone = c.phone \/ u.code = c.code
           newUser == [id |-> userSeq + 1, email |-> c.email,
                       username |-> c.username, phone |-> c.phone, code |-> c.code,
                       role |-> "KASIR", password |-> hashPassword(c.password)]
       IN  IF duplicate
           THEN /\ calls' = [calls EXCEPT ![s] =
                        Fail(c, "PrismaClientKnownRequestError", "Unique constraint failed")]
                /\ UNCHANGED users
           ELSE /\ users' = users \cup {newUser}
                /\ calls' = [calls EXCEPT ![s] = Succeed([c EXCEPT !.userId = newUser.id])]
    /\ userSeq' = userSeq + 1
    /\ UNCHANGED <<refreshTokens, now, rowToken>>

\* ------------------------------------------------- UserService.updateUser
\* A field that is absent from the request (or empty, which JavaScript treats
\* alike in `userData.email ? ... : ...`) is the empty string.
Given(value) == value # ""

\* prisma.user.update({ where: { id }, data }): the row must exist, and the
\* unique indexes on email, username and phone reject a value another row holds.
user_update(s, c, data) ==
    LET target == {u \in users : u.id = c.userId}
        old == CHOOSE u \in target : TRUE
        new == [old EXCEPT !.email = IF Given(data.email) THEN data.email ELSE @,
                           !.username = IF Given(data.username) THEN data.username ELSE @,
                           !.phone = IF Given(data.phone) THEN data.phone ELSE @,
                           !.role = IF Given(data.role) THEN data.role ELSE @]
        duplicate == \E u \in users \ target :
                        \/ u.email = new.email \/ u.username = new.username
                        \/ u.phone = new.phone
    IN  IF target = {}
        THEN /\ calls' = [calls EXCEPT ![s] =
                    Fail(c, "PrismaClientKnownRequestError", "Record to update not found")]
             /\ UNCHANGED users
        ELSE IF duplicate
        THEN /\ calls' = [calls EXCEPT ![s] =
                    Fail(c, "PrismaClientKnownRequestError", "Unique constraint failed")]
             /\ UNCHANGED users
        ELSE /\ users' = (users \ target) \cup {new}
             /\ calls' = [calls EXCEPT ![s] = Succeed(c)]

updateUser_findUnique(s, id, userData) ==
    /\ calls[s].pc = "idle"
    /\ LET c == [Begin(s, "updateUser") EXCEPT
                    !.userId = id, !.email = userData.email,
                    !.username = userData.username, !.phone = userData.phone,
                    !.role = userData.role]
       IN  calls' = [calls EXCEPT ![s] =
                IF \A u \in users : u.id # id
                THEN Fail(c, "NotFoundError", "User not found")
                ELSE IF Given(userData.email) \/ Given(userData.username) \/ Given(userData.phone)
                THEN [c EXCEPT !.pc = "updateUser_findFirst"]
                ELSE [c EXCEPT !.pc = "updateUser_update"]]
    /\ UNCHANGED <<users, userSeq, refreshTokens, now, rowToken>>

updateUser_findFirst(s) ==
    /\ calls[s].pc = "updateUser_findFirst"
    /\ LET c == calls[s]
           matches == {u \in users :
                        /\ u.id # c.userId
                        /\ \/ Given(c.email) /\ u.email = c.email
                           \/ Given(c.username) /\ u.username = c.username
                           \/ Given(c.phone) /\ u.phone = c.phone}
           Conflict(conflictUser) ==
                IF conflictUser.email = c.email
                THEN Fail(c, "ConflictError", "User with this email already exists")
                ELSE IF conflictUser.username = c.username
                THEN Fail(c, "ConflictError", "Username already taken")
                ELSE IF conflictUser.phone = c.phone
                THEN Fail(c, "ConflictError", "Phone number already registered")
                ELSE [c EXCEPT !.pc = "updateUser_update"]
       IN  IF matches # {}
           THEN \E conflictUser \in matches :
                    calls' = [calls EXCEPT ![s] = Conflict(conflictUser)]
           ELSE calls' = [calls EXCEPT ![s] = [c EXCEPT !.pc = "updateUser_update"]]
    /\ UNCHANGED <<users, userSeq, refreshTokens, now, rowToken>>

updateUser_update(s) ==
    /\ calls[s].pc = "updateUser_update"
    /\ user_update(s, calls[s], calls[s])
    /\ UNCHANGED <<userSeq, refreshTokens, now, rowToken>>

\* ---------------------------------------------- UserService.updateProfile
updateProfile_findUnique(s, id, phone) ==
    /\ calls[s].pc = "idle"
    /\ LET c == [Begin(s, "updateProfile") EXCEPT !.userId = id, !.phone = phone]
       IN  calls' = [calls EXCEPT ![s] =
                IF \A u \in users : u.id # id
                THEN Fail(c, "NotFoundError", "User not found")
                ELSE IF Given(phone)
                THEN [c EXCEPT !.pc = "updateProfile_findFirst"]
                ELSE [c EXCEPT !.pc = "updateProfile_update"]]
    /\ UNCHANGED <<users, userSeq, refreshTokens, now, rowToken>>

updateProfile_findFirst(s) ==
    /\ calls[s].pc = "updateProfile_findFirst"
    /\ LET c == calls[s]
       IN  calls' = [calls EXCEPT ![s] =
                IF \E u \in users : u.id # c.userId /\ u.phone = c.phone
                THEN Fail(c, "ConflictError", "Phone number already registered")
                ELSE [c EXCEPT !.pc = "updateProfile_update"]]
    /\ UNCHANGED <<users, userSeq, refreshTokens, now, rowToken>>

updateProfile_update(s) ==
    /\ calls[s].pc = "updateProfile_update"
    /\ user_update(s, calls[s],
                   [email |-> "", username |-> "", phone |-> calls[s].phone, role |-> ""])
    /\ UNCHANGED <<userSeq, refreshTokens, now, rowToken>>

\* ------------------------------------------------- UserService.deleteUser
deleteUser_findUnique(s, id) ==
    /\ calls[s].pc = "idle"
    /\ LET c == [Begin(s, "deleteUser") EXCEPT !.userId = id]
       IN  calls' = [calls EXCEPT ![s] =
                IF \A u \in users : u.id # id
                THEN Fail(c, "NotFoundError", "User not found")
                ELSE [c EXCEPT !.pc = "deleteUser_delete"]]
    /\ UNCHANGED <<users, userSeq, refreshTokens, now, rowToken>>

\* prisma.user.delete({ where: { id } }): the row must exist, and the foreign
\* key UserRefreshToken.userId (no onDelete given: restrict) must not refer to it.
deleteUser_delete(s) ==
    /\ calls[s].pc = "deleteUser_delete"
    /\ LET c == calls[s]
           target == {u \in users : u.id = c.userId}
       IN  IF target = {}
           THEN /\ calls' = [calls EXCEPT ![s] =
                        Fail(c, "PrismaClientKnownRequestError", "Record to delete does not exist")]
                /\ UNCHANGED users
           ELSE IF \E i \in DOMAIN refreshTokens : refreshTokens[i].userId = c.userId
           THEN /\ calls' = [calls EXCEPT ![s] =
                        Fail(c, "PrismaClientKnownRequestError", "Foreign key constraint failed")]
                /\ UNCHANGED users
           ELSE /\ users' = users \ target
                /\ calls' = [calls EXCEPT ![s] = Succeed(c)]
    /\ UNCHANGED <<userSeq, refreshTokens, now, rowToken>>

\* --------------------------------------------------------- PaginationUtils
\* A value of a query field: undefined, a number or a string (a sequence of
\* characters).
Undefined == [kind |-> "undefined"]
Num(n) == [kind |-> "number", n |-> n]
Txt(chars) == [kind |-> "string", chars |-> chars]

\* JavaScript truthiness, as `query.page || 1` reads it.
Truthy(v) ==
    CASE v.kind = "undefined" -> FALSE
      [] v.kind = "number" -> v.n # 0
      [] v.kind = "string" -> v.chars # <<>>

DecimalDigits == <<"0", "1", "2", "3", "4", "5", "6", "7", "8", "9">>
HexDigits == DecimalDigits \o <<"a", "b", "c", "d", "e", "f">>

\* The digits of a natural number, most significant first.
RECURSIVE Decimal(_)
Decimal(n) ==
    IF n < 10 THEN <<DecimalDigits[n + 1]>>
    ELSE Append(Decimal(n \div 10), DecimalDigits[(n % 10) + 1])

\* String(value) for the values above (integers only).
String(v) ==
    CASE v.kind = "undefined" -> <<"u", "n", "d", "e", "f", "i", "n", "e", "d">>
      [] v.kind = "number" -> IF v.n < 0 THEN <<"-">> \o Decimal(-v.n) ELSE Decimal(v.n)
      [] v.kind = "string" -> v.chars

NaN == [nan |-> TRUE, val |-> 0]

\* parseInt(text) with no radix: leading white space is skipped, a sign is
\* read, a 0x prefix selects base 16, then the longest run of digits is read
\* and whatever follows it is ignored; no digit at all gives NaN.
parseInt(text) ==
    LET blanks == CHOOSE k \in 0..Len(text) :
                    /\ \A i \in 1..k : text[i] = " "
                    /\ k < Len(text) => text[k + 1] # " "
        t1 == SubSeq(text, blanks + 1, Len(text))
        signed == Len(t1) > 0 /\ t1[1] \in {"-", "+"}
        factor == IF Len(t1) > 0 /\ t1[1] = "-" THEN -1 ELSE 1
        t2 == IF signed THEN Tail(t1) ELSE t1
        hex == Len(t2) >= 2 /\ t2[1] = "0" /\ t2[2] \in {"x", "X"}
        t3 == IF hex THEN SubSeq(t2, 3, Len(t2)) ELSE t2
        digits == IF hex THEN HexDigits ELSE DecimalDigits
        base == Len(digits)
        IsDigit(ch) == \E d \in DOMAIN digits : digits[d] = ch
        ValueOf(ch) == (CHOOSE d \in DOMAIN digits : digits[d] = ch) - 1
        run == CHOOSE k \in 0..Len(t3) :
                    /\ \A i \in 1..k : IsDigit(t3[i])
                    /\ k < Len(t3) => ~IsDigit(t3[k + 1])
        F[i \in 0..run] == IF i = 0 THEN 0 ELSE F[i - 1] * base + ValueOf(t3[i])
    IN  IF run = 0 THEN NaN ELSE [nan |-> FALSE, val |-> factor * F[run]]

\* Variant: the limit is not clamped to maxLimit.
parsePaginationParams_Unclamped(query, defaultSortBy, maxLimit) ==
    LET page0 == parseInt(String(IF Truthy(query.page) THEN query.page ELSE Num(1)))
        page == IF page0.nan \/ page0.val < 1 THEN 1 ELSE page0.val
        limit0 == parseInt(String(IF Truthy(query.limit) THEN query.limit ELSE Num(10)))
        limit == IF limit0.nan \/ limit0.val < 1 THEN 10 ELSE limit0.val
    IN  [page |-> page, limit |-> limit, skip |-> (page - 1) * limit,
         sortBy |-> IF Truthy(query.sortBy) THEN query.sortBy ELSE defaultSortBy,
         sortOrder |-> IF query.sortOrder \in {Txt(<<"a", "s", "c">>), Txt(<<"d", "e", "s", "c">>)}
                       THEN query.sortOrder ELSE Txt(<<"d", "e", "s", "c">>)]

parsePaginationParams(query, defaultSortBy, maxLimit) ==
    LET page0 == parseInt(String(IF Truthy(query.page) THEN query.page ELSE Num(1)))
        page == IF page0.nan \/ page0.val < 1 THEN 1 ELSE page0.val
        limit0 == parseInt(String(IF Truthy(query.limit) THEN query.limit ELSE Num(10)))
        limit1 == IF limit0.nan \/ limit0.val < 1 THEN 10 ELSE limit0.val
        limit == IF limit1 > maxLimit THEN maxLimit ELSE limit1
    IN  [page |-> page, limit |-> limit, skip |-> (page - 1) * limit,
         sortBy |-> IF Truthy(query.sortBy) THEN query.sortBy ELSE defaultSortBy,
         sortOrder |-> IF query.sortOrder \in {Txt(<<"a", "s", "c">>), Txt(<<"d", "e", "s", "c">>)}
                       THEN query.sortOrder ELSE Txt(<<"d", "e", "s", "c">>)]

\* Variant: Math.floor in place of Math.ceil.
createMetadata_Floor(page, limit, total) ==
    LET totalPages == total \div limit
    IN  [page |-> page, limit |-> limit, total |-> total, totalPages |-> totalPages,
         hasNext |-> page < totalPages, hasPrev |-> page > 1]

\* Math.ceil(total / limit) on integers.
createMetadata(page, limit, total) ==
    LET totalPages == IF total % limit = 0 THEN total \div limit ELSE (total \div limit) + 1
    IN  [page |-> page, limit |-> limit, total |-> total, totalPages |-> totalPages,
         hasNext |-> page < totalPages, hasPrev |-> page > 1]

createPaginatedResult(data, page, limit, total) ==
    [data |-> data, pagination |-> createMetadata(page, limit, total)]

\* The two functions as calls: the arguments and the value returned are kept
\* in the call record.
call_parsePaginationParams(s, query, defaultSortBy, maxLimit) ==
    /\ calls[s].pc = "idle"
    /\ calls' = [calls EXCEPT ![s] =
            Succeed([Begin(s, "parsePaginationParams") EXCEPT
                        !.query = query, !.maxLimit = maxLimit,
                        !.result = parsePaginationParams(query, defaultSortBy, maxLimit)])]
    /\ UNCHANGED <<users, userSeq, refreshTokens, now, rowToken>>

call_createPaginatedResult(s, data, page, limit, total) ==
    /\ calls[s].pc = "idle"
    /\ calls' = [calls EXCEPT ![s] =
            Succeed([Begin(s, "createPaginatedResult") EXCEPT
                        !.query = [page |-> page, limit |-> limit, total |-> total],
                        !.result = createPaginatedResult(data, page, limit, total)])]
    /\ UNCHANGED <<users, userSeq, refreshTokens, now, rowToken>>

\* Variant: a page equal to totalPages still claims a next page.
paginated_NextOnLast(data, page, limit, total) ==
    LET totalPages == IF total % limit = 0 THEN total \div limit ELSE (total \div limit) + 1
        currentPage == parseInt(String(Num(page))).val
    IN  [success |-> TRUE, data |-> data,
         metadata |-> [page |-> currentPage, limit |-> parseInt(String(Num(limit))).val,
                       total |-> total, totalPages |-> totalPages,
                       hasNext |-> currentPage <= totalPages, hasPrev |-> currentPage > 1]]

\* ApiResponse.paginated: page and limit go through toString() and parseInt.
paginated(data, page, limit, total) ==
    LET totalPages == IF total % limit = 0 THEN total \div limit ELSE (total \div limit) + 1
        currentPage == parseInt(String(Num(page))).val
    IN  [success |-> TRUE, data |-> data,
         metadata |-> [page |-> currentPage, limit |-> parseInt(String(Num(limit))).val,
                       total |-> total, totalPages |-> totalPages,
                       hasNext |-> currentPage < totalPages, hasPrev |-> currentPage > 1]]

\* UserController.getUsers, after the service has answered: result is what the
\* service built with createPaginatedResult, and the body of the response is
\* built from its data and its page, limit and total.
getUsers_json(s, data, page, limit, total) ==
    LET result == createPaginatedResult(data, page, limit, total)
        body == paginated(result.data, result.pagination.page, result.pagination.limit,
                          result.pagination.total)
    IN  /\ calls[s].pc = "idle"
        /\ calls' = [calls EXCEPT ![s] =
                Succeed([Begin(s, "getUsers") EXCEPT
                            !.query = [page |-> page, limit |-> limit, total |-> total],
                            !.result = [service |-> result, body |-> body]])]
        /\ UNCHANGED <<users, userSeq, refreshTokens, now, rowToken>>

\* ------------------------------------- Bank, Branch and Color (schema.prisma)
\* A code is a sequence of characters; a name and an address are opaque strings.
Kinds == {"bank", "branch", "color", "reimbursementType", "cekGiroFailStatus"}
NoRow == [id |-> 0, code |-> <<>>, name |-> "", address |-> ""]

\* The columns with a unique index, in the order the services look them up.
UniqueFields(kind) ==
    CASE kind = "bank" -> <<"code">>
      [] kind = "branch" -> <<"code", "name", "address">>
      [] kind = "color" -> <<"code", "name">>
      [] kind = "reimbursementType" -> <<"code", "name">>
      [] kind = "cekGiroFailStatus" -> <<"code", "name">>

\* The models that hold a foreign key to the code of an entity.
Relations(kind) ==
    CASE kind = "bank" -> {"AccountNumber"}
      [] kind = "branch" -> {"ExpenseCategory", "Member", "Product"}
      [] kind = "color" -> {"ProductDetail"}
      [] kind = "reimbursementType" -> {}
      [] kind = "cekGiroFailStatus" -> {}

\* The relations a delete counts before it deletes.
CountedRelations(kind) ==
    CASE kind = "bank" -> <<"AccountNumber">>
      [] kind = "branch" -> <<"ExpenseCategory", "Member">>
      [] kind = "color" -> <<"ProductDetail">>
      [] kind = "reimbursementType" -> <<>>
      [] kind = "cekGiroFailStatus" -> <<>>

ReferencedMessage(kind) ==
    CASE kind = "bank" -> "Cannot delete bank. It is referenced by account numbers."
      [] kind = "branch" -> "Cannot delete branch. It is referenced by other records."
      [] kind = "color" -> "Cannot delete color. It is referenced by product details."

LowerLetters ==
    <<"a","b","c","d","e","f","g","h","i","j","k","l","m","n","o","p","q","r","s","t","u","v","w","x","y","z">>
UpperLetters ==
    <<"A","B","C","D","E","F","G","H","I","J","K","L","M","N","O","P","Q","R","S","T","U","V","W","X","Y","Z">>

\* String.prototype.toLowerCase
toLowerCase(chars) ==
    [i \in DOMAIN chars |->
        IF chars[i] \in Upper
        THEN LowerLetters[CHOOSE k \in DOMAIN UpperLetters : UpperLetters[k] = chars[i]]
        ELSE chars[i]]

\* String.prototype.toUpperCase
toUpperCase(chars) ==
    [i \in DOMAIN chars |->
        IF chars[i] \in Lower
        THEN UpperLetters[CHOOSE k \in DOMAIN LowerLetters : LowerLetters[k] = chars[i]]
        ELSE chars[i]]

\* /^#[0-9A-F]{6}$/i
hexColorRegex(code) ==
    /\ Len(code) = 7
    /\ code[1] = "#"
    /\ \A i \in 2..7 :
        code[i] \in Digit \cup {"a","b","c","d","e","f","A","B","C","D","E","F"}

\* The checks on the format of a code; "" when the code passes.
CodeError(kind, code) ==
    CASE kind = "bank" ->
            IF Len(code) # 3 THEN "Bank code must be exactly 3 characters" ELSE ""
      [] kind = "branch" ->
            IF Len(code) # 3 THEN "Branch code must be exactly 3 characters" ELSE ""
      [] kind = "color" ->
            IF Len(code) # 7
            THEN "Color code must be exactly 7 characters (e.g., #FF0000)"
            ELSE IF ~hexColorRegex(code)
            THEN "Color code must be a valid hex color format (e.g., #FF0000)"
            ELSE ""
      [] kind = "reimbursementType" ->
            IF Len(code) # 7 THEN "Reimbursement type code must be exactly 7 characters" ELSE ""
      [] kind = "cekGiroFailStatus" ->
            IF Len(code) > 7 THEN "Cek giro fail status code must be at most 7 characters" ELSE ""

ExistsMessage(kind, field) ==
    CASE kind = "bank" -> "Bank with this code already exists"
      [] kind = "branch" /\ field = "code" -> "Branch with this code already exists"
      [] kind = "branch" /\ field = "name" -> "Branch with this name already exists"
      [] kind = "branch" /\ field = "address" -> "Branch with this address already exists"
      [] kind = "color" /\ field = "code" -> "Color with this code already exists"
      [] kind = "color" /\ field = "name" -> "Color with this name already exists"
      [] kind = "reimbursementType" /\ field = "code" ->
            "Reimbursement type with this code already exists"
      [] kind = "reimbursementType" /\ field = "name" ->
            "Reimbursement type with this name already exists"
      [] kind = "cekGiroFailStatus" /\ field = "code" ->
            "Cek giro fail status with this code already exists"
      [] kind = "cekGiroFailStatus" /\ field = "name" ->
            "Cek giro fail status with this name already exists"

NotFoundMessage(kind) ==
    CASE kind = "bank" -> "Bank not found"
      [] kind = "branch" -> "Branch not found"
      [] kind = "color" -> "Color not found"
      [] kind = "reimbursementType" -> "Reimbursement type not found"
      [] kind = "cekGiroFailStatus" -> "Cek giro fail status not found"

\* bankData.code && ..., branchData.name && ...: the field is a non-empty string
Has(data, field) == IF field = "code" THEN data.code # <<>> ELSE data[field] # ""

\* Creates in flight that will still take an id; keeps the tables within MaxEntities.
CreatingEntity(kind) ==
    {s \in InFlight : calls[s].op = "createEntity" /\ calls[s].kind = kind}
CanCreateEntity(kind) == tableSeq[kind] + Cardinality(CreatingEntity(kind)) < MaxEntities

BeginEntity(s, op, kind, id, data) ==
    [Begin(s, op) EXCEPT !.kind = kind, !.id = id, !.data = data,
                         !.preTables = tables, !.preChildren = children]

\* The unique index of each column in UniqueFields, as the database enforces it.
Duplicate(kind, row) ==
    \E other \in tables[kind] : other.id # row.id /\
        \E k \in DOMAIN UniqueFields(kind) :
            other[UniqueFields(kind)[k]] = row[UniqueFields(kind)[k]]

\* ------------ BankService.createBank, BranchService.createBranch, ColorService.createColor
\* Variant: the row found by findUnique is ignored.
createEntity_check_NoLookup(c, k) ==
    IF k < Len(UniqueFields(c.kind))
    THEN [c EXCEPT !.pc = "find", !.step = k + 1]
    ELSE IF CodeError(c.kind, c.data.code) # ""
    THEN Fail(c, "ValidationError", CodeError(c.kind, c.data.code))
    ELSE [c EXCEPT !.pc = "create"]

\* One findUnique on the k-th unique column and the code up to the next await.
createEntity_check(c, k) ==
    LET field == UniqueFields(c.kind)[k]
        existing == {row \in tables[c.kind] : row[field] = c.data[field]}
    IN  IF existing # {}
        THEN Fail(c, "ConflictError", ExistsMessage(c.kind, field))
        ELSE IF k < Len(UniqueFields(c.kind))
        THEN [c EXCEPT !.pc = "find", !.step = k + 1]
        ELSE IF CodeError(c.kind, c.data.code) # ""
        THEN Fail(c, "ValidationError", CodeError(c.kind, c.data.code))
        ELSE [c EXCEPT !.pc = "create"]

createEntity_findUnique(s, kind, data) ==
    /\ calls[s].pc = "idle"
    /\ CanCreateEntity(kind)
    /\ calls' = [calls EXCEPT
            ![s] = createEntity_check(BeginEntity(s, "createEntity", kind, 0, data), 1)]
    /\ UNCHANGED <<users, userSeq, refreshTokens, now, rowToken, tables, tableSeq, children>>

createEntity_findUniqueNext(s) ==
    /\ calls[s].op = "createEntity"
    /\ calls[s].pc = "find"
    /\ calls' = [calls EXCEPT ![s] = createEntity_check(calls[s], calls[s].step)]
    /\ UNCHANGED <<users, userSeq, refreshTokens, now, rowToken, tables, tableSeq, children>>

\* prisma.bank.create, prisma.branch.create, prisma.color.create
entity_create(s) ==
    LET c == calls[s]
        row == [id |-> tableSeq[c.kind] + 1, code |-> toUpperCase(c.data.code),
                name |-> c.data.name, address |-> c.data.address]
    IN  /\ c.op = "createEntity"
        /\ c.pc = "create"
        /\ tableSeq' = [tableSeq EXCEPT ![c.kind] = @ + 1]
        /\ IF Duplicate(c.kind, row)
           THEN /\ calls' = [calls EXCEPT ![s] =
                        Fail(c, "PrismaClientKnownRequestError", "Unique constraint failed")]
                /\ UNCHANGED tables
           ELSE /\ tables' = [tables EXCEPT ![c.kind] = @ \cup {row}]
                /\ calls' = [calls EXCEPT ![s] = [Succeed(c) EXCEPT !.result = row]]
        /\ UNCHANGED <<users, userSeq, refreshTokens, now, rowToken, children>>

\* ------------ BankService.updateBank, BranchService.updateBranch, ColorService.updateColor
\* From the k-th unique column on: the code that runs up to the next await.
updateEntity_next(c, k) ==
    LET fields == UniqueFields(c.kind)
        given == {j \in k..Len(fields) : Has(c.data, fields[j])}
        next == CHOOSE j \in given : \A i \in given : j <= i
    IN  IF given = {}
        THEN [c EXCEPT !.pc = "update"]
        ELSE IF fields[next] = "code" /\ CodeError(c.kind, c.data.code) # ""
        THEN Fail(c, "ValidationError", CodeError(c.kind, c.data.code))
        ELSE [c EXCEPT !.pc = "find", !.step = next]

updateEntity_findUnique(s, kind, id, data) ==
    LET c == BeginEntity(s, "updateEntity", kind, id, data)
    IN  /\ calls[s].pc = "idle"
        /\ calls' = [calls EXCEPT ![s] =
                IF \E row \in tables[kind] : row.id = id
                THEN updateEntity_next(c, 1)
                ELSE Fail(c, "NotFoundError", NotFoundMessage(kind))]
        /\ UNCHANGED <<users, userSeq, refreshTokens, now, rowToken, tables, tableSeq, children>>

\* Variant: the conflict search does not exclude the row that is being updated.
updateEntity_findUniqueNext_OwnRowConflicts(s) ==
    LET c == calls[s]
        field == UniqueFields(c.kind)[c.step]
        same == {row \in tables[c.kind] : row[field] = c.data[field]}
    IN  /\ c.op = "updateEntity"
        /\ c.pc = "find"
        /\ calls' = [calls EXCEPT ![s] =
                IF same # {}
                THEN Fail(c, "ConflictError", ExistsMessage(c.kind, field))
                ELSE updateEntity_next(c, c.step + 1)]
        /\ UNCHANGED <<users, userSeq, refreshTokens, now, rowToken, tables, tableSeq, children>>

\* findUnique on the new value; a conflict when the row found is another one
updateEntity_findUniqueNext(s) ==
    LET c == calls[s]
        field == UniqueFields(c.kind)[c.step]
        same == {row \in tables[c.kind] : row[field] = c.data[field]}
    IN  /\ c.op = "updateEntity"
        /\ c.pc = "find"
        /\ calls' = [calls EXCEPT ![s] =
                IF \E row \in same : row.id # c.id
                THEN Fail(c, "ConflictError", ExistsMessage(c.kind, field))
                ELSE updateEntity_next(c, c.step + 1)]
        /\ UNCHANGED <<users, userSeq, refreshTokens, now, rowToken, tables, tableSeq, children>>

\* prisma.bank.update: the row must exist, the unique indexes hold, and a new code
\* is carried over to the rows that reference the old one (onUpdate: Cascade, the
\* default of a required relation).
entity_update(s) ==
    LET c == calls[s]
        old == CHOOSE row \in tables[c.kind] : row.id = c.id
        new == [id |-> old.id,
                code |-> IF Has(c.data, "code") THEN toUpperCase(c.data.code) ELSE old.code,
                name |-> IF Has(c.data, "name") THEN c.data.name ELSE old.name,
                address |-> IF Has(c.data, "address") THEN c.data.address ELSE old.address]
    IN  /\ c.op = "updateEntity"
        /\ c.pc = "update"
        /\ IF ~\E row \in tables[c.kind] : row.id = c.id
           THEN /\ calls' = [calls EXCEPT ![s] =
                        Fail(c, "PrismaClientKnownRequestError", "Record to update not found")]
                /\ UNCHANGED <<tables, children>>
           ELSE IF Duplicate(c.kind, new)
           THEN /\ calls' = [calls EXCEPT ![s] =
                        Fail(c, "PrismaClientKnownRequestError", "Unique constraint failed")]
                /\ UNCHANGED <<tables, children>>
           ELSE /\ tables' = [tables EXCEPT ![c.kind] = (@ \ {old}) \cup {new}]
                /\ children' = {IF child.relation \in Relations(c.kind)
                                    /\ child.parentCode = old.code
                                 THEN [child EXCEPT !.parentCode = new.code]
                                 ELSE child : child \in children}
                /\ calls' = [calls EXCEPT ![s] = [Succeed(c) EXCEPT !.result = new]]
        /\ UNCHANGED <<users, userSeq, refreshTokens, now, rowToken, tableSeq>>

\* ------------ BankService.deleteBank, BranchService.deleteBranch, ColorService.deleteColor
deleteEntity_findUnique(s, kind, id) ==
    LET c == BeginEntity(s, "deleteEntity", kind, id, <<>>)
        found == {row \in tables[kind] : row.id = id}
    IN  /\ calls[s].pc = "idle"
        /\ calls' = [calls EXCEPT ![s] =
                IF found = {}
                THEN Fail(c, "NotFoundError", NotFoundMessage(kind))
                ELSE IF CountedRelations(kind) = <<>>
                THEN [c EXCEPT !.pc = "delete", !.existing = CHOOSE row \in found : TRUE]
                ELSE [c EXCEPT !.pc = "count", !.step = 1,
                               !.existing = CHOOSE row \in found : TRUE]]
        /\ UNCHANGED <<users, userSeq, refreshTokens, now, rowToken, tables, tableSeq, children>>

\* prisma.accountNumber.count({ where: { bankCode: existingBank.code } }) and the
\* like; the counts are tested after the last one.
deleteEntity_count(s) ==
    LET c == calls[s]
        counted == {child \in children :
                        /\ child.relation = CountedRelations(c.kind)[c.step]
                        /\ child.parentCode = c.existing.code}
        total == c.count + Cardinality(counted)
    IN  /\ c.op = "deleteEntity"
        /\ c.pc = "count"
        /\ calls' = [calls EXCEPT ![s] =
                IF c.step < Len(CountedRelations(c.kind))
                THEN [c EXCEPT !.step = c.step + 1, !.count = total]
                ELSE IF total > 0
                THEN Fail([c EXCEPT !.count = total], "ConflictError", ReferencedMessage(c.kind))
                ELSE [c EXCEPT !.pc = "delete"]]
        /\ UNCHANGED <<users, userSeq, refreshTokens, now, rowToken, tables, tableSeq, children>>

\* Variant: the delete is not restricted by the rows that reference the code.
entity_delete_NoRestrict(s) ==
    LET c == calls[s]
        found == {row \in tables[c.kind] : row.id = c.id}
    IN  /\ c.op = "deleteEntity"
        /\ c.pc = "delete"
        /\ IF found = {}
           THEN /\ calls' = [calls EXCEPT ![s] =
                        Fail(c, "PrismaClientKnownRequestError", "Record to delete does not exist")]
                /\ UNCHANGED tables
           ELSE /\ tables' = [tables EXCEPT ![c.kind] = @ \ found]
                /\ calls' = [calls EXCEPT ![s] = Succeed(c)]
        /\ UNCHANGED <<users, userSeq, refreshTokens, now, rowToken, tableSeq, children>>

\* prisma.bank.delete: the row must exist and no row may reference its code
\* (onDelete: Restrict, the default of a required relation).
entity_delete(s) ==
    LET c == calls[s]
        found == {row \in tables[c.kind] : row.id = c.id}
        referenced == \E child \in children, row \in found :
                        /\ child.relation \in Relations(c.kind)
                        /\ child.parentCode = row.code
    IN  /\ c.op = "deleteEntity"
        /\ c.pc = "delete"
        /\ IF found = {}
           THEN /\ calls' = [calls EXCEPT ![s] =
                        Fail(c, "PrismaClientKnownRequestError", "Record to delete does not exist")]
                /\ UNCHANGED tables
           ELSE IF referenced
           THEN /\ calls' = [calls EXCEPT ![s] =
                        Fail(c, "PrismaClientKnownRequestError", "Foreign key constraint failed")]
                /\ UNCHANGED tables
           ELSE /\ tables' = [tables EXCEPT ![c.kind] = @ \ found]
                /\ calls' = [calls EXCEPT ![s] = Succeed(c)]
        /\ UNCHANGED <<users, userSeq, refreshTokens, now, rowToken, tableSeq, children>>

\* prisma.accountNumber.create and the like, by the services of the referencing
\* models: the foreign key admits the row only if a parent holds the code.
child_create(relation, parentCode) ==
    /\ \E kind \in DOMAIN tables :
            /\ relation \in Relations(kind)
            /\ \E row \in tables[kind] : row.code = parentCode
    /\ children' = children \cup {[relation |-> relation, parentCode |-> parentCode]}
    /\ UNCHANGED <<users, userSeq, refreshTokens, now, calls, rowToken, tables, tableSeq>>

\* BankService.getBankById: the row, or null
getEntityById(s, kind, id) ==
    LET c == BeginEntity(s, "getEntityById", kind, id, <<>>)
        found == {row \in tables[kind] : row.id = id}
    IN  /\ calls[s].pc = "idle"
        /\ calls' = [calls EXCEPT ![s] =
                [Succeed(c) EXCEPT !.result = IF found = {} THEN NoRow
                                              ELSE CHOOSE row \in found : TRUE]]
        /\ UNCHANGED <<users, userSeq, refreshTokens, now, rowToken, tables, tableSeq, children>>

\* The rows the tables start with, and the rows that reference them.
BCA == <<"B", "C", "A">>
BNI == <<"B", "N", "I">>
JKT == <<"J", "K", "T">>
BDG == <<"B", "D", "G">>
SBY == <<"S", "B", "Y">>
Red == <<"#", "F", "F", "0", "0", "0", "0">>
Green == <<"#", "0", "0", "F", "F", "0", "0">>
Transport == <<"R", "M", "B", "0", "0", "0", "1">>
NSF == <<"N", "S", "F">>

InitialRows(kind) ==
    CASE kind = "bank" ->
            {[id |-> 1, code |-> BCA, name |-> "Bank Central Asia", address |-> ""],
             [id |-> 2, code |-> BNI, name |-> "Bank Negara Indonesia", address |-> ""]}
      [] kind = "branch" ->
            {[id |-> 1, code |-> JKT, name |-> "Jakarta", address |-> "Jl. Sudirman 1"],
             [id |-> 2, code |-> BDG, name |-> "Bandung", address |-> "Jl. Braga 2"],
             [id |-> 3, code |-> SBY, name |-> "Surabaya", address |-> "Jl. Tunjungan 3"]}
      [] kind = "color" ->
            {[id |-> 1, code |-> Red, name |-> "Red", address |-> ""],
             [id |-> 2, code |-> Green, name |-> "Green", address |-> ""]}
      [] kind = "reimbursementType" ->
            {[id |-> 1, code |-> Transport, name |-> "Transport", address |-> ""]}
      [] kind = "cekGiroFailStatus" ->
            {[id |-> 1, code |-> NSF, name |-> "Insufficient funds", address |-> ""]}

InitialChildren ==
    {[relation |-> "AccountNumber", parentCode |-> BCA],
     [relation |-> "Member", parentCode |-> JKT],
     [relation |-> "Product", parentCode |-> BDG],
     [relation |-> "ProductDetail", parentCode |-> Red]}

\* ------------------------------------------------------- list operations
\* A where object is a function from its keys to filters; a filter is
\* [equals |-> value] for a plain value, [contains |-> text, mode |-> ...] for a
\* text filter, and under the key OR a sequence of text filters on named fields.
Put(object, key, value) ==
    [k \in DOMAIN object \cup {key} |-> IF k = key THEN value ELSE object[k]]

\* Object.assign(target, source): the keys of source replace those of target
ObjectAssign(target, source) ==
    [k \in DOMAIN target \cup DOMAIN source |->
        IF k \in DOMAIN source THEN source[k] ELSE target[k]]

createTextSearchFilter(search, fields) ==
    [OR |-> [i \in DOMAIN fields |->
                [field |-> fields[i], contains |-> search, mode |-> "insensitive"]]]

ListKinds == {"branch", "phone", "userPermission"}

\* const where = {}; if (priceType) where.priceType = priceType;
\* if (search) Object.assign(where, createTextSearchFilter(search, [...]))
getBranches_where(query) ==
    LET where1 == IF query.priceType # ""
                  THEN Put(<<>>, "priceType", [equals |-> query.priceType]) ELSE <<>>
    IN  IF query.search # <<>>
        THEN ObjectAssign(where1,
                createTextSearchFilter(query.search, <<"name", "code", "address">>))
        ELSE where1

getPhones_where(query) ==
    LET where1 == IF query.search # <<>>
                  THEN ObjectAssign(<<>>,
                        createTextSearchFilter(query.search, <<"phone", "ownerCode">>))
                  ELSE <<>>
        where2 == IF query.module # ""
                  THEN Put(where1, "module", [equals |-> query.module]) ELSE where1
    IN  IF query.ownerCode # <<>>
        THEN Put(where2, "ownerCode", [equals |-> query.ownerCode]) ELSE where2

\* if (search) where.role = { contains: search, mode: 'insensitive' };
\* if (role) where.role = role; if (menu) ...; if (subMenu) ...
getUserPermissions_where(query) ==
    LET where1 == IF query.search # <<>>
                  THEN Put(<<>>, "role", [contains |-> query.search, mode |-> "insensitive"])
                  ELSE <<>>
        where2 == IF query.role # <<>>
                  THEN Put(where1, "role", [equals |-> query.role]) ELSE where1
        where3 == IF query.menu # ""
                  THEN Put(where2, "menu", [equals |-> query.menu]) ELSE where2
    IN  IF query.subMenu # ""
        THEN Put(where3, "subMenu", [equals |-> query.subMenu]) ELSE where3

BuildWhere(kind, query) ==
    CASE kind = "branch" -> getBranches_where(query)
      [] kind = "phone" -> getPhones_where(query)
      [] kind = "userPermission" -> getUserPermissions_where(query)

DefaultSortBy(kind) ==
    IF kind = "userPermission" THEN Txt(<<"i", "d">>)
    ELSE Txt(<<"c", "r", "e", "a", "t", "e", "d", "A", "t">>)

\* The store's reading of a where object.
contains(text, part) ==
    \E i \in 0..(Len(text) - Len(part)) : SubSeq(text, i + 1, i + Len(part)) = part
containsInsensitive(text, part) == contains(toLowerCase(text), toLowerCase(part))

Satisfies(row, where) ==
    \A k \in DOMAIN where :
        IF k = "OR"
        THEN \E i \in DOMAIN where[k] :
                containsInsensitive(row[where[k][i].field], where[k][i].contains)
        ELSE IF "equals" \in DOMAIN where[k]
        THEN row[k] = where[k].equals
        ELSE containsInsensitive(row[k], where[k].contains)

\* The columns of an enum type: their filters know no contains, and the client
\* rejects a query that uses one (PrismaClientValidationError).
EnumColumns(kind) ==
    CASE kind = "branch" -> {"priceType"}
      [] kind = "phone" -> {"module"}
      [] kind = "userPermission" -> {"role", "menu", "subMenu"}
Rejected(kind, where) ==
    \E k \in DOMAIN where \cap EnumColumns(kind) : "contains" \in DOMAIN where[k]

\* orderBy createdAt or id, descending (rows are created in the order of their ids)
Ordered(rows) ==
    CHOOSE list \in [1..Cardinality(rows) -> rows] :
        \A i, j \in DOMAIN list : i < j => list[i].id > list[j].id

\* prisma.branch.count({ where }) and the like
getList_count(s, kind, query) ==
    LET where == BuildWhere(kind, query)
        c == [Begin(s, "getList") EXCEPT
                !.kind = kind, !.query = query, !.where = where, !.preTables = tables,
                !.pagination = parsePaginationParams(query, DefaultSortBy(kind), 100)]
    IN  /\ calls[s].pc = "idle"
        /\ calls' = [calls EXCEPT ![s] =
                IF Rejected(kind, where)
                THEN Fail(c, "PrismaClientValidationError", "Invalid data format")
                ELSE [c EXCEPT !.pc = "findMany",
                        !.count = Cardinality({row \in tables[kind] : Satisfies(row, where)})]]
        /\ UNCHANGED <<users, userSeq, refreshTokens, now, rowToken, tables, tableSeq, children>>

\* prisma.branch.findMany({ where, orderBy, skip, take: limit }) and the result
getList_findMany(s) ==
    LET c == calls[s]
        pagination == c.pagination
        found == Ordered({row \in tables[c.kind] : Satisfies(row, c.where)})
        last == IF pagination.skip + pagination.limit < Len(found)
                THEN pagination.skip + pagination.limit ELSE Len(found)
        data == SubSeq(found, pagination.skip + 1, last)
    IN  /\ c.op = "getList"
        /\ c.pc = "findMany"
        /\ calls' = [calls EXCEPT ![s] =
                [Succeed(c) EXCEPT !.result =
                    createPaginatedResult(data, pagination.page, pagination.limit, c.count)]]
        /\ UNCHANGED <<users, userSeq, refreshTokens, now, rowToken, tables, tableSeq, children>>

\* The rows the list operations read.
KASIR == <<"K", "A", "S", "I", "R">>
OWNER == <<"O", "W", "N", "E", "R">>
SALES == <<"S", "A", "L", "E", "S">>
ListRows(kind) ==
    CASE kind = "branch" ->
            {[id |-> 1, priceType |-> "ECER", code |-> JKT, name |-> <<"J", "a", "k", "a", "r", "t", "a">>,
              address |-> <<"J", "l", ".", " ", "A">>],
             [id |-> 2, priceType |-> "GROSIR", code |-> BDG, name |-> <<"B", "a", "n", "d", "u", "n", "g">>,
              address |-> <<"J", "l", ".", " ", "B">>],
             [id |-> 3, priceType |-> "ECER", code |-> SBY, name |-> <<"S", "u", "r", "a", "b", "a", "y", "a">>,
              address |-> <<"J", "l", ".", " ", "C">>]}
      [] kind = "phone" ->
            {[id |-> 1, module |-> "MEMBER", ownerCode |-> <<"M", "0", "1">>, phone |-> <<"0", "8", "1", "1">>],
             [id |-> 2, module |-> "SUPPLIER", ownerCode |-> <<"S", "0", "1">>, phone |-> <<"0", "8", "2", "2">>],
             [id |-> 3, module |-> "MEMBER", ownerCode |-> <<"M", "0", "2">>, phone |-> <<"0", "8", "2", "1">>]}
      [] kind = "userPermission" ->
            {[id |-> 1, role |-> KASIR, menu |-> "Report", subMenu |-> "ReportTransaction"],
             [id |-> 2, role |-> OWNER, menu |-> "Report", subMenu |-> "ReportTransaction"],
             [id |-> 3, role |-> SALES, menu |-> "Outlet", subMenu |-> "OutletInventory"]}

\* ------------------------------------------------- errors and errorHandler
\* An error object: its class, its name, and its own properties. details is
\* null or a set of <<path, message>> entries; target is err.meta.target.
Null == [present |-> FALSE, entries |-> {}]
Details(entries) == [present |-> TRUE, entries |-> entries]

\* The prototype chain of each class.
Ancestors(class) ==
    CASE class \in {"ValidationError", "AuthenticationError", "AuthorizationError",
                    "NotFoundError", "ConflictError", "InternalServerError",
                    "BadRequestError", "TooManyRequestsError"} -> {class, "AppError", "Error"}
      [] class = "Object" -> {"Object"}
      [] OTHER -> {class, "Error"}
InstanceOf(object, class) == class \in Ancestors(object.class)

\* An Error of a class that is not an AppError: no statusCode, no isOperational.
Foreign(class, name, message, code, target, errors, body) ==
    [class |-> class, name |-> name, message |-> message, own |-> {},
     statusCode |-> 0, code |-> code, isOperational |-> FALSE, details |-> Null,
     target |-> target, errors |-> errors, body |-> body]

\* class AppError: statusCode, code and isOperational are own properties; the
\* name stays that of Error.
AppError(class, message, statusCode, code) ==
    [class |-> class, name |-> "Error", message |-> message,
     own |-> {"statusCode", "code", "isOperational"},
     statusCode |-> statusCode, code |-> code, isOperational |-> TRUE, details |-> Null,
     target |-> <<>>, errors |-> <<>>, body |-> FALSE]

ValidationError(message, details) ==
    [AppError("ValidationError", message, 400, "VALIDATION_ERROR") EXCEPT
        !.own = @ \cup {"details"}, !.details = details]
AuthenticationError(message) == AppError("AuthenticationError", message, 401, "AUTHENTICATION_ERROR")
AuthorizationError(message) == AppError("AuthorizationError", message, 403, "AUTHORIZATION_ERROR")
NotFoundError(message) == AppError("NotFoundError", message, 404, "NOT_FOUND_ERROR")
ConflictError(message) == AppError("ConflictError", message, 409, "CONFLICT_ERROR")
InternalServerError(message) == AppError("InternalServerError", message, 500, "INTERNAL_SERVER_ERROR")
BadRequestError(message) == AppError("BadRequestError", message, 400, "BAD_REQUEST_ERROR")
TooManyRequestsError(message) == AppError("TooManyRequestsError", message, 429, "TOO_MANY_REQUESTS_ERROR")

\* { ...err }: a plain object with the own enumerable properties of err; the
\* prototype of err is not carried over.
Spread(err) == [err EXCEPT !.class = "Object"]

\* `${fieldName} already exists`
AlreadyExists(target) ==
    IF target = <<>> THEN "field already exists"
    ELSE IF target[1] = "code" THEN "code already exists"
    ELSE "name already exists"

\* validationErrors[path] = message, one issue after the other
Assigned(issues) ==
    LET F[i \in 0..Len(issues)] ==
            IF i = 0 THEN {}
            ELSE {entry \in F[i-1] : entry[1] # issues[i].path}
                    \cup {<<issues[i].path, issues[i].message>>}
    IN F[Len(issues)]

\* errorHandler: the rules are tried in the order of the source and the last one
\* that applies decides; an error that none of them replaces stays the copy.
errorHandler(err) ==
    LET translated ==
            IF err.name = "SyntaxError" /\ err.body
            THEN ValidationError("Invalid JSON format", Null)
            ELSE IF err.name = "CastError" THEN ValidationError("Invalid data format", Null)
            ELSE IF err.name = "ValidationError" /\ ~InstanceOf(err, "ValidationError")
            THEN ValidationError("Invalid input data", Details(Assigned(err.errors)))
            ELSE IF err.name = "NotBeforeError" THEN AuthenticationError("Token not active yet")
            ELSE IF err.name = "TokenExpiredError" THEN AuthenticationError("Token expired")
            ELSE IF err.name = "JsonWebTokenError" THEN AuthenticationError("Invalid token")
            ELSE IF InstanceOf(err, "PrismaClientInitializationError")
            THEN InternalServerError("Database connection failed")
            ELSE IF InstanceOf(err, "PrismaClientValidationError")
            THEN ValidationError("Invalid data format", Null)
            ELSE IF InstanceOf(err, "PrismaClientKnownRequestError")
            THEN CASE err.code = "P2002" -> ConflictError(AlreadyExists(err.target))
                   [] err.code = "P2025" -> NotFoundError("Record not found")
                   [] err.code = "P2003" -> ValidationError("Foreign key constraint failed", Null)
                   [] err.code = "P2014" -> ValidationError("Invalid input data", Null)
                   [] OTHER -> InternalServerError("Database error occurred")
            ELSE Spread(err)
        error == IF "isOperational" \notin translated.own \/ ~translated.isOperational
                 THEN InternalServerError("Something went wrong")
                 ELSE translated
    IN  [status |-> IF error.statusCode # 0 THEN error.statusCode ELSE 500,
         code |-> IF error.code # "" THEN error.code ELSE "INTERNAL_SERVER_ERROR",
         message |-> IF error.message # "" THEN error.message ELSE "Internal server error",
         details |-> IF InstanceOf(error, "ValidationError") /\ error.details.present
                     THEN error.details ELSE Null]

\* A service, or a library it calls, throws.
throw(s, err) ==
    /\ calls[s].pc = "idle"
    /\ calls' = [calls EXCEPT ![s] = [Begin(s, "request") EXCEPT !.pc = "thrown", !.error = err]]
    /\ UNCHANGED <<users, userSeq, refreshTokens, now, rowToken, tables, tableSeq, children>>

\* validate: schema.parse fails with the issues of a ZodError
validate(s, issues) ==
    LET validationErrors ==
            Assigned([i \in DOMAIN issues |->
                        [path |-> join(issues[i].path, "."), message |-> issues[i].message]])
    IN  /\ calls[s].pc = "idle"
        /\ calls' = [calls EXCEPT ![s] =
                [Begin(s, "request") EXCEPT
                    !.pc = "thrown",
                    !.error = ValidationError("Validation failed", Details(validationErrors))]]
        /\ UNCHANGED <<users, userSeq, refreshTokens, now, rowToken, tables, tableSeq, children>>

\* app.use(errorHandler): the response to the error
app_errorHandler(s) ==
    /\ calls[s].pc = "thrown"
    /\ calls' = [calls EXCEPT ![s] =
            [calls[s] EXCEPT !.pc = "done", !.result = errorHandler(calls[s].error)]]
    /\ UNCHANGED <<users, userSeq, refreshTokens, now, rowToken, tables, tableSeq, children>>

\* ------------------------------------------------- rateLimitPerUser
\* requests.get(userId): undefined when the Map has no entry for the user
get(requests, userId) ==
    IF userId \in DOMAIN requests THEN requests[userId] ELSE Undefined

\* requests.set(userId, value)
set(requests, userId, value) ==
    [k \in DOMAIN requests \cup {userId} |-> IF k = userId THEN value ELSE requests[k]]

\* Variant: the request that finds the count at maxRequests is still counted
\* and passed on.
rateLimitPerUser_NoLimit(s, user) ==
    LET userId == user.id
        userRequests == get(limiter.requests, userId)
        c == [Begin(s, "rateLimitPerUser") EXCEPT !.user = user, !.existing = userRequests]
    IN  /\ calls[s].pc = "idle"
        /\ IF user = NoUser
           THEN /\ calls' = [calls EXCEPT ![s] = Succeed(c)]
                /\ UNCHANGED <<limiter, passed>>
           ELSE IF userRequests = Undefined \/ now > userRequests.resetTime
           THEN /\ limiter' = [limiter EXCEPT !.requests =
                        set(@, userId, [count |-> 1, resetTime |-> now + limiter.windowMs])]
                /\ passed' = Append(passed, [userId |-> userId, at |-> now])
                /\ calls' = [calls EXCEPT ![s] = Succeed(c)]
           ELSE /\ limiter' = [limiter EXCEPT !.requests[userId].count = @ + 1]
                /\ passed' = Append(passed, [userId |-> userId, at |-> now])
                /\ calls' = [calls EXCEPT ![s] = Succeed(c)]
        /\ UNCHANGED <<users, userSeq, refreshTokens, now, rowToken, tables, tableSeq, children>>

\* The middleware returned by rateLimitPerUser(maxRequests, windowMs), run for
\* a request whose req.user is user (NoUser: req.user is not set). It has no
\* await: it runs in one step. asyncHandler hands what it throws to next(err).
rateLimitPerUser(s, user) ==
    LET userId == user.id
        userRequests == get(limiter.requests, userId)
        c == [Begin(s, "rateLimitPerUser") EXCEPT !.user = user, !.existing = userRequests]
    IN  /\ calls[s].pc = "idle"
        /\ IF user = NoUser
           THEN /\ calls' = [calls EXCEPT ![s] = Succeed(c)]
                /\ UNCHANGED <<limiter, passed>>
           ELSE IF userRequests = Undefined \/ now > userRequests.resetTime
           THEN /\ limiter' = [limiter EXCEPT !.requests =
                        set(@, userId, [count |-> 1, resetTime |-> now + limiter.windowMs])]
                /\ passed' = Append(passed, [userId |-> userId, at |-> now])
                /\ calls' = [calls EXCEPT ![s] = Succeed(c)]
           ELSE IF userRequests.count >= limiter.maxRequests
           THEN /\ calls' = [calls EXCEPT ![s] =
                        [c EXCEPT !.pc = "thrown",
                                  !.error = AuthorizationError(
                                      "Rate limit exceeded. Please try again later.")]]
                /\ UNCHANGED <<limiter, passed>>
           ELSE /\ limiter' = [limiter EXCEPT !.requests[userId].count = @ + 1]
                /\ passed' = Append(passed, [userId |-> userId, at |-> now])
                /\ calls' = [calls EXCEPT ![s] = Succeed(c)]
        /\ UNCHANGED <<users, userSeq, refreshTokens, now, rowToken, tables, tableSeq, children>>

\* Date.now() grows between two requests.
Date_now ==
    /\ \A s \in Slots : calls[s].pc = "idle"
    /\ now < MaxClock
    /\ now' = now + 1
    /\ UNCHANGED <<users, userSeq, refreshTokens, calls, rowToken, consumed, loggedOut, pwRevoked>>
    /\ UNCHANGED <<tables, tableSeq, children, limiter, passed>>

\* ------------------------------------------- authenticate and authorize
\* An Authorization header is a string of pieces: words, blanks and tokens.
\* A request without the header has present = FALSE.
Atom(text) == [text |-> text, jwt |-> NoStr]
Jwt(token) == [text |-> "", jwt |-> token]
Space == Atom(" ")
NoHeader == [present |-> FALSE, chars |-> <<>>]
Header(chars) == [present |-> TRUE, chars |-> chars]

\* authHeader.split(' ')
RECURSIVE split(_)
split(chars) ==
    IF chars = <<>> THEN << <<>> >>
    ELSE LET rest == split(Tail(chars))
         IN  IF Head(chars) = Space
             THEN << <<>> >> \o rest
             ELSE << <<Head(chars)>> \o rest[1] >> \o Tail(rest)

\* JwtUtils.extractTokenFromHeader: null is found = FALSE
extractTokenFromHeader(authHeader) ==
    LET parts == split(authHeader.chars)
    IN  IF ~authHeader.present \/ authHeader.chars = <<>>
        THEN [found |-> FALSE, part |-> <<>>]
        ELSE IF Len(parts) = 2 /\ parts[1] = <<Atom("Bearer")>>
        THEN [found |-> TRUE, part |-> parts[2]]
        ELSE [found |-> FALSE, part |-> <<>>]

\* JwtUtils.verifyToken on the text taken from the header
verifyToken(part, clock) ==
    Len(part) = 1 /\ part[1].text = "" /\ verifyTokenOk(part[1].jwt, clock)

\* router.use(authenticate), up to the await of prisma.user.findUnique
authenticate(s, authHeader, route, issues) ==
    LET token == extractTokenFromHeader(authHeader)
        c == [Begin(s, "authenticate") EXCEPT
                !.header = authHeader, !.route = route, !.issues = issues]
    IN  /\ calls[s].pc = "idle"
        /\ calls' = [calls EXCEPT ![s] =
                IF ~token.found \/ token.part = <<>>
                THEN [c EXCEPT !.pc = "thrown",
                               !.error = AuthenticationError("Access token is required")]
                ELSE IF ~verifyToken(token.part, now)
                THEN [c EXCEPT !.pc = "thrown", !.error = AuthenticationError("Invalid token")]
                ELSE [c EXCEPT !.pc = "authenticate_findUnique",
                               !.token = token.part[1].jwt,
                               !.userId = decodeToken(token.part[1].jwt).userId]]
        /\ UNCHANGED <<users, userSeq, refreshTokens, now, rowToken, tables, tableSeq, children>>

\* Variant: req.user.role is taken from the token and not from the row.
authenticate_findUnique_TokenRole(s) ==
    LET c == calls[s]
        found == {u \in users : u.id = c.userId}
        row == CHOOSE u \in found : TRUE
        user == [row EXCEPT !.role = decodeToken(c.token).role]
        validationErrors ==
            Assigned([i \in DOMAIN c.issues |->
                        [path |-> join(c.issues[i].path, "."), message |-> c.issues[i].message]])
        invalid == ValidationError("Validation failed", Details(validationErrors))
        denied == AuthorizationError("Access denied. Required roles: ...")
    IN  /\ c.pc = "authenticate_findUnique"
        /\ calls' = [calls EXCEPT ![s] =
                IF found = {}
                THEN [c EXCEPT !.pc = "thrown", !.error = AuthenticationError("User not found")]
                ELSE IF c.route.validateFirst /\ c.issues # <<>>
                THEN [c EXCEPT !.pc = "thrown", !.user = user, !.error = invalid]
                ELSE IF user.role \notin c.route.roles
                THEN [c EXCEPT !.pc = "thrown", !.user = user, !.error = denied]
                ELSE IF c.issues # <<>>
                THEN [c EXCEPT !.pc = "thrown", !.user = user, !.error = invalid]
                ELSE [c EXCEPT !.pc = "controller", !.user = user]]
        /\ UNCHANGED <<users, userSeq, refreshTokens, now, rowToken, tables, tableSeq, children>>

\* authenticate after prisma.user.findUnique has answered: req.user is the row,
\* and next() runs the middlewares of the route one after the other without an
\* await in between: authorize(...roles) and validate(schema), in the order of
\* the route, and then the handler of the controller.
authenticate_findUnique(s) ==
    LET c == calls[s]
        found == {u \in users : u.id = c.userId}
        user == CHOOSE u \in found : TRUE
        validationErrors ==
            Assigned([i \in DOMAIN c.issues |->
                        [path |-> join(c.issues[i].path, "."), message |-> c.issues[i].message]])
        invalid == ValidationError("Validation failed", Details(validationErrors))
        denied == AuthorizationError("Access denied. Required roles: ...")
    IN  /\ c.pc = "authenticate_findUnique"
        /\ calls' = [calls EXCEPT ![s] =
                IF found = {}
                THEN [c EXCEPT !.pc = "thrown", !.error = AuthenticationError("User not found")]
                ELSE IF c.route.validateFirst /\ c.issues # <<>>
                THEN [c EXCEPT !.pc = "thrown", !.user = user, !.error = invalid]
                ELSE IF user.role \notin c.route.roles
                THEN [c EXCEPT !.pc = "thrown", !.user = user, !.error = denied]
                ELSE IF c.issues # <<>>
                THEN [c EXCEPT !.pc = "thrown", !.user = user, !.error = invalid]
                ELSE [c EXCEPT !.pc = "controller", !.user = user]]
        /\ UNCHANGED <<users, userSeq, refreshTokens, now, rowToken, tables, tableSeq, children>>

\* The handler of the controller answers the request.
controller(s) ==
    /\ calls[s].pc = "controller"
    /\ calls' = [calls EXCEPT ![s] = Succeed(calls[s])]
    /\ UNCHANGED <<users, userSeq, refreshTokens, now, rowToken, tables, tableSeq, children>>

\* routes/banks.ts: createBank, getBankById, deleteBank
BankRoutes ==
    {[roles |-> {"SUPER_ADMIN", "OWNER", "PIMPINAN", "HEAD_KANTOR"}, validateFirst |-> FALSE],
     [roles |-> {"SUPER_ADMIN", "OWNER", "PIMPINAN", "HEAD_KANTOR", "STAFF_KANTOR", "ANGGOTA"},
      validateFirst |-> TRUE],
     [roles |-> {"SUPER_ADMIN", "OWNER", "PIMPINAN"}, validateFirst |-> TRUE]}

\* ------------------------------------------- the response leaves the server
Return(s) ==
    /\ calls[s].pc = "done"
    /\ calls' = [calls EXCEPT ![s] = Idle]
    /\ UNCHANGED <<users, userSeq, refreshTokens, now, rowToken>>

\* ----------------------------------------------------------------- history
\* The history sets are written when a response leaves the server (slot s holds
\* a finished call and the step replaces it), so that while a call is finished
\* but not yet returned they describe the calls answered before it.
WasActive(c) ==
    \E i \in DOMAIN c.preRows :
        rowToken[i] = c.token /\ c.preRows[i].userId = c.userId /\ ~c.preRows[i].revoked

ActiveBefore(c) ==
    {rowToken[i] : i \in {j \in DOMAIN c.preRows :
                            c.preRows[j].userId = c.userId /\ ~c.preRows[j].revoked}}

\* A token that is issued (again) starts a new life.
IssuedBy(c) ==
    IF c.status = "ok" /\ c.op \in {"login", "refreshToken"}
    THEN {c.newTokens.refreshToken} ELSE {}

Observe(s) ==
    LET c == calls[s] IN
    IF c.pc # "done"
    THEN UNCHANGED <<consumed, loggedOut, pwRevoked>>
    ELSE /\ consumed' = (consumed \cup
                (IF c.op = "refreshToken" /\ c.status = "ok" THEN {c.token} ELSE {}))
                \ IssuedBy(c)
         /\ loggedOut' = (loggedOut \cup
                (IF c.op = "logout" /\ WasActive(c) THEN {c.token} ELSE {}))
                \ IssuedBy(c)
         /\ pwRevoked' = (pwRevoked \cup
                (IF c.op = "changePassword" /\ c.status = "ok" THEN ActiveBefore(c) ELSE {}))
                \ IssuedBy(c)

\* The history is kept only in the specification that reads it. The calls it
\* accompanies never touch the entity tables.
History(s, h) ==
    /\ IF h THEN Observe(s) ELSE UNCHANGED <<consumed, loggedOut, pwRevoked>>
    /\ UNCHANGED <<tables, tableSeq, children, limiter, passed>>

\* ---------------------------------------------------------- specifications
Init ==
    /\ users = {Alice, Bob}
    /\ userSeq = 2
    /\ refreshTokens = <<>>
    /\ now = 0
    /\ calls = [s \in Slots |-> Idle]
    /\ tables = [kind \in Kinds |-> InitialRows(kind)]
    /\ tableSeq = [kind \in Kinds |-> Cardinality(InitialRows(kind))]
    /\ children = InitialChildren
    /\ rowToken = <<>>
    /\ limiter = [maxRequests |-> 1, windowMs |-> 1, requests |-> <<>>]
    /\ passed = <<>>
    /\ consumed = {}
    /\ loggedOut = {}
    /\ pwRevoked = {}

\* login and refreshToken: the calls that issue tokens
SessionCall(s, h) ==
    \/ \E email \in Emails, password \in {PwA, PwB} :
            login_findUnique(s, email, password) /\ History(s, h)
    \/ login_create(s) /\ History(s, h)
    \/ \E token \in Presentable : refreshToken_findFirst(s, token) /\ History(s, h)
    \/ refreshToken_update(s) /\ History(s, h)
    \/ refreshToken_create(s) /\ History(s, h)
    \/ Return(s) /\ History(s, h)

\* logout, changePassword, revokeAllTokens, cleanupExpiredTokens: the calls that revoke
RevokingCall(s, h) ==
    \/ \E userId \in {u.id : u \in users}, token \in Presentable :
            logout_findFirst(s, userId, token) /\ History(s, h)
    \/ logout_update(s) /\ History(s, h)
    \/ \E userId \in {u.id : u \in users} : logout_updateMany(s, userId) /\ History(s, h)
    \/ \E userId \in {1, 3}, currentPassword \in {PwA, PwB}, newPassword \in Passwords :
            changePassword_findUnique(s, userId, currentPassword, newPassword) /\ History(s, h)
    \/ changePassword_update(s) /\ History(s, h)
    \/ changePassword_updateMany(s) /\ History(s, h)
    \/ \E userId \in {u.id : u \in users} : revokeAllTokens(s, userId) /\ History(s, h)
    \/ cleanupExpiredTokens_findMany(s) /\ History(s, h)
    \/ cleanupExpiredTokens_updateMany(s) /\ History(s, h)

AuthCall(s, h) ==
    \/ SessionCall(s, h)
    \/ RevokingCall(s, h)

\* One request at a time: each call runs to its response before the next starts.
Next ==
    \/ Tick
    \/ AuthCall(1, FALSE)

Spec == Init /\ [][Next]_vars

\* One request at a time, with the history of the answered calls.
HistNext ==
    \/ Tick
    \/ AuthCall(1, TRUE)

HistSpec == Init /\ [][HistNext]_vars

\* Requests overlap: two login / refreshToken calls in flight, interleaved at
\* their store accesses.
RaceNext ==
    \/ Tick
    \/ \E s \in Slots : SessionCall(s, FALSE)

RaceSpec == Init /\ [][RaceNext]_vars

\* Registration: one request at a time.
UserData == [email : Emails, username : Usernames, phone : Phones, code : Codes,
             password : StrengthSamples]

RegNext ==
    \/ \E userData \in UserData : register_findFirst(1, userData) /\ History(1, FALSE)
    \/ \E userData \in UserData : createUser_findFirst(1, userData) /\ History(1, FALSE)
    \/ user_create(1) /\ History(1, FALSE)
    \/ Return(1) /\ History(1, FALSE)

RegSpec == Init /\ [][RegNext]_vars

\* User management: register, createUser, updateUser, updateProfile and
\* deleteUser, two requests in flight.  The first slot takes every request, the
\* second the requests that compete with it for the same unique values.
NewUsers == {d \in UserData : /\ d.email = "carol@x.io" /\ d.username = "carol"
                              /\ d.phone = "0833" /\ d.code = "U003"
                              /\ d.password = PwA}
UserUpdates ==
    {[email |-> "carol@x.io", username |-> "", phone |-> "", role |-> ""],
     [email |-> "", username |-> "carol", phone |-> "0833", role |-> ""]}
UserIds(s) == IF s = 1 THEN {Alice.id, Bob.id + 1} ELSE {Alice.id}
ProfilePhones(s) == IF s = 1 THEN {"", "0833"} ELSE {}

UserCall(s) ==
    \/ \E userData \in NewUsers : register_findFirst(s, userData) /\ History(s, FALSE)
    \/ \E userData \in NewUsers :
            s = 1 /\ createUser_findFirst(s, userData) /\ History(s, FALSE)
    \/ user_create(s) /\ History(s, FALSE)
    \/ \E id \in UserIds(s), userData \in UserUpdates :
            updateUser_findUnique(s, id, userData) /\ History(s, FALSE)
    \/ updateUser_findFirst(s) /\ History(s, FALSE)
    \/ updateUser_update(s) /\ History(s, FALSE)
    \/ \E id \in UserIds(s), phone \in ProfilePhones(s) :
            updateProfile_findUnique(s, id, phone) /\ History(s, FALSE)
    \/ updateProfile_findFirst(s) /\ History(s, FALSE)
    \/ updateProfile_update(s) /\ History(s, FALSE)
    \/ \E id \in UserIds(s) : deleteUser_findUnique(s, id) /\ History(s, FALSE)
    \/ deleteUser_delete(s) /\ History(s, FALSE)
    \/ Return(s) /\ History(s, FALSE)

UserNext == \E s \in Slots : UserCall(s)

UserSpec == Init /\ [][UserNext]_vars

\* Pagination: the arguments PaginationUtils is called with.
QueryNumbers == {Txt(<<>>), Txt(<<"0">>), Txt(<<"1">>), Txt(<<"3">>), Txt(<<"1", "2">>),
                 Txt(<<"-", "2">>), Txt(<<"+", "2">>), Txt(<<" ", "2">>), Txt(<<"2", ".", "7">>),
                 Txt(<<"2", "a">>), Txt(<<"a", "2">>), Txt(<<"a", "b", "c">>),
                 Txt(<<"0", "x", "1", "f">>), Txt(<<"-">>)}
QueryValues == {Undefined} \cup {Num(n) : n \in -1..3} \cup {Num(250)} \cup QueryNumbers
SortOrders == {Undefined, Txt(<<"a", "s", "c">>), Txt(<<"d", "e", "s", "c">>),
               Txt(<<"A", "S", "C">>), Txt(<<>>)}
SortFields == {Undefined, Txt(<<"n", "a", "m", "e">>)}
Queries == [page : QueryValues, limit : QueryValues, sortBy : SortFields, sortOrder : SortOrders]
MaxLimits == {1, 5, 100}
Pages == 1..4
Limits == 1..4
Totals == 0..9

PagNext ==
    \/ \E query \in Queries, maxLimit \in MaxLimits :
            call_parsePaginationParams(1, query, Txt(<<"c", "r", "e", "a", "t", "e", "d", "A", "t">>),
                                       maxLimit) /\ History(1, FALSE)
    \/ \E page \in Pages, limit \in Limits, total \in Totals :
            call_createPaginatedResult(1, <<>>, page, limit, total) /\ History(1, FALSE)
    \/ \E page \in Pages \cup {12, 100}, limit \in Limits \cup {10}, total \in Totals \cup {120} :
            getUsers_json(1, <<>>, page, limit, total) /\ History(1, FALSE)
    \/ Return(1) /\ History(1, FALSE)

PagSpec == Init /\ [][PagNext]_vars

\* Bank, Branch and Color management, one call at a time on one kind of entity.
EntityInit ==
    /\ users = {Alice, Bob}
    /\ userSeq = 2
    /\ refreshTokens = <<>>
    /\ now = 0
    /\ calls = [s \in Slots |-> Idle]
    /\ rowToken = <<>>
    /\ limiter = [maxRequests |-> 1, windowMs |-> 1, requests |-> <<>>]
    /\ passed = <<>>
    /\ consumed = {}
    /\ loggedOut = {}
    /\ pwRevoked = {}
    /\ \E kind \in Kinds :
        /\ tables = [k \in {kind} |-> InitialRows(k)]
        /\ tableSeq = [k \in {kind} |-> Cardinality(InitialRows(k))]
        /\ children = {child \in InitialChildren : child.relation \in Relations(kind)}

EntityCodes(kind) ==
    CASE kind = "bank" -> {BCA, toLowerCase(BCA), <<"X", "Y", "Z">>, <<"X", "Y">>}
      [] kind = "branch" -> {JKT, <<"m", "d", "n">>, <<"M", "D">>}
      [] kind = "color" -> {Red, toLowerCase(Red), <<"#", "0", "0", "0", "0", "F", "F">>,
                            <<"#", "0", "0", "0", "0", "F", "G">>, <<"#", "F", "F", "F">>}
      [] kind = "reimbursementType" -> {Transport, toLowerCase(Transport), <<"R", "M", "B">>}
      [] kind = "cekGiroFailStatus" ->
            {NSF, toLowerCase(NSF), <<"S", "T", "O", "P", "P", "E", "D", "!">>}
EntityNames(kind) ==
    CASE kind = "bank" -> {"Bank Mandiri"}
      [] kind = "branch" -> {"Jakarta", "Medan"}
      [] kind = "color" -> {"Red", "Blue"}
      [] kind = "reimbursementType" -> {"Transport", "Meal"}
      [] kind = "cekGiroFailStatus" -> {"Insufficient funds", "Stopped"}
EntityAddresses(kind) ==
    IF kind = "branch" THEN {"Jl. Sudirman 1", "Jl. Asia 4"} ELSE {""}

\* CreateBankRequest and the like: every field is present
CreateData(kind) ==
    [code : EntityCodes(kind), name : EntityNames(kind), address : EntityAddresses(kind)]
\* UpdateBankRequest and the like: every field is optional
UpdateData(kind) ==
    [code : EntityCodes(kind) \cup {<<>>}, name : EntityNames(kind) \cup {""},
     address : EntityAddresses(kind) \cup {""}]
EntityIds == 1..MaxEntities

EntityCall(s) ==
    \/ \E kind \in DOMAIN tables : \E data \in CreateData(kind) :
            createEntity_findUnique(s, kind, data) /\ UNCHANGED <<consumed, loggedOut, pwRevoked, limiter, passed>>
    \/ createEntity_findUniqueNext(s) /\ UNCHANGED <<consumed, loggedOut, pwRevoked, limiter, passed>>
    \/ entity_create(s) /\ UNCHANGED <<consumed, loggedOut, pwRevoked, limiter, passed>>
    \/ \E kind \in DOMAIN tables, id \in EntityIds : \E data \in UpdateData(kind) :
            updateEntity_findUnique(s, kind, id, data) /\ UNCHANGED <<consumed, loggedOut, pwRevoked, limiter, passed>>
    \/ updateEntity_findUniqueNext(s) /\ UNCHANGED <<consumed, loggedOut, pwRevoked, limiter, passed>>
    \/ entity_update(s) /\ UNCHANGED <<consumed, loggedOut, pwRevoked, limiter, passed>>
    \/ \E kind \in DOMAIN tables, id \in EntityIds :
            deleteEntity_findUnique(s, kind, id) /\ UNCHANGED <<consumed, loggedOut, pwRevoked, limiter, passed>>
    \/ deleteEntity_count(s) /\ UNCHANGED <<consumed, loggedOut, pwRevoked, limiter, passed>>
    \/ entity_delete(s) /\ UNCHANGED <<consumed, loggedOut, pwRevoked, limiter, passed>>
    \/ \E kind \in DOMAIN tables, id \in EntityIds :
            getEntityById(s, kind, id) /\ UNCHANGED <<consumed, loggedOut, pwRevoked, limiter, passed>>
    \/ Return(s) /\ History(s, FALSE)

EntityNext == EntityCall(1)

EntitySpec == EntityInit /\ [][EntityNext]_vars

\* The list operations of Branch, Phone and UserPermission.
ListInit ==
    /\ users = {Alice, Bob}
    /\ userSeq = 2
    /\ refreshTokens = <<>>
    /\ now = 0
    /\ calls = [s \in Slots |-> Idle]
    /\ rowToken = <<>>
    /\ limiter = [maxRequests |-> 1, windowMs |-> 1, requests |-> <<>>]
    /\ passed = <<>>
    /\ consumed = {}
    /\ loggedOut = {}
    /\ pwRevoked = {}
    /\ tables = [kind \in ListKinds |-> ListRows(kind)]
    /\ tableSeq = [kind \in ListKinds |-> Cardinality(ListRows(kind))]
    /\ children = {}

Searches(kind) ==
    CASE kind = "branch" -> {<<>>, <<"j">>, <<"b", "a">>}
      [] kind = "phone" -> {<<>>, <<"0", "8", "2">>, <<"m">>}
      [] kind = "userPermission" -> {<<>>, <<"s">>, <<"o", "w", "n">>}

\* BranchListQuery, PhoneListQuery, UserPermissionListQuery
ListQueries(kind) ==
    [search : Searches(kind),
     priceType : IF kind = "branch" THEN {"", "ECER", "GROSIR"} ELSE {""},
     module : IF kind = "phone" THEN {"", "MEMBER"} ELSE {""},
     ownerCode : IF kind = "phone" THEN {<<>>, <<"M", "0", "1">>} ELSE {<<>>},
     role : IF kind = "userPermission" THEN {<<>>, KASIR, SALES} ELSE {<<>>},
     menu : IF kind = "userPermission" THEN {"", "Report"} ELSE {""},
     subMenu : IF kind = "userPermission" THEN {"", "ReportTransaction"} ELSE {""},
     page : {Undefined, Txt(<<"2">>)},
     limit : {Undefined, Txt(<<"1">>)},
     sortBy : {Undefined},
     sortOrder : {Undefined}]

ListNext ==
    \/ \E kind \in ListKinds : \E query \in ListQueries(kind) :
            getList_count(1, kind, query) /\ UNCHANGED <<consumed, loggedOut, pwRevoked, limiter, passed>>
    \/ getList_findMany(1) /\ UNCHANGED <<consumed, loggedOut, pwRevoked, limiter, passed>>
    \/ Return(1) /\ History(1, FALSE)

ListSpec == ListInit /\ [][ListNext]_vars

\* Errors on their way to the errorHandler.
Messages == {"Bank code must be exactly 3 characters", "Bank not found"}
FieldDetails ==
    {Null, Details({}), Details({<<<<"email">>, "Invalid email format">>}),
     Details({<<<<"code">>, "Required">>, <<<<"name">>, "Required">>})}
Thrown ==
    {ValidationError(message, details) : message \in Messages, details \in FieldDetails}
    \cup {AuthenticationError(message) : message \in Messages}
    \cup {AuthorizationError(message) : message \in Messages}
    \cup {NotFoundError(message) : message \in Messages}
    \cup {ConflictError(message) : message \in Messages}
    \cup {BadRequestError(message) : message \in Messages}
    \cup {TooManyRequestsError(message) : message \in Messages}
    \cup {InternalServerError(message) : message \in Messages}
    \cup {Foreign("PrismaClientKnownRequestError", "PrismaClientKnownRequestError",
                  "Invalid invocation", code, target, <<>>, FALSE) :
            code \in {"P2002", "P2025", "P2003", "P2014", "P2021"},
            target \in {<<>>, <<"code">>, <<"name">>}}
    \cup {Foreign(class, class, "Invalid invocation", "", <<>>, <<>>, FALSE) :
            class \in {"PrismaClientValidationError", "PrismaClientInitializationError"}}
    \cup {Foreign("Error", name, "jwt malformed", "", <<>>, <<>>, FALSE) :
            name \in {"JsonWebTokenError", "TokenExpiredError", "NotBeforeError", "CastError"}}
    \cup {Foreign("Error", "ValidationError", "Validation failed", "", <<>>, errors, FALSE) :
            errors \in {<<>>, <<[path |-> <<"email">>, message |-> "Invalid email format"]>>}}
    \cup {Foreign(class, class, "Unexpected token", "", <<>>, <<>>, body) :
            class \in {"SyntaxError", "TypeError"}, body \in BOOLEAN}
ZodIssues ==
    {<<[path |-> <<"body", "email">>, message |-> "Invalid email format"]>>,
     <<[path |-> <<"body", "code">>, message |-> "Required"],
       [path |-> <<"query", "page">>, message |-> "Page must be a positive integer"]>>,
     <<[path |-> <<"body", "password">>, message |-> "Password too short"],
       [path |-> <<"body", "password">>, message |-> "Password needs a digit"]>>}

ErrNext ==
    \/ \E s \in Slots, err \in Thrown :
            throw(s, err) /\ UNCHANGED <<consumed, loggedOut, pwRevoked, limiter, passed>>
    \/ \E s \in Slots, issues \in ZodIssues :
            validate(s, issues) /\ UNCHANGED <<consumed, loggedOut, pwRevoked, limiter, passed>>
    \/ \E s \in Slots : app_errorHandler(s) /\ UNCHANGED <<consumed, loggedOut, pwRevoked, limiter, passed>>
    \/ \E s \in Slots : Return(s) /\ History(s, FALSE)

ErrSpec == Init /\ [][ErrNext]_vars

\* The maintenance sweep next to the calls that insert and revoke rows: two
\* calls in flight, and rows older than, exactly as old as and younger than
\* the retention age.
SweepTimes == {0, 1, CleanupAge + 1}

Elapse ==
    /\ \A s \in Slots : calls[s].pc = "idle"
    /\ \E t \in SweepTimes : t > now /\ now' = t
    /\ UNCHANGED <<users, userSeq, refreshTokens, calls, rowToken, consumed, loggedOut, pwRevoked>>
    /\ UNCHANGED <<tables, tableSeq, children, limiter, passed>>

SweepCall(s) ==
    \/ login_findUnique(s, "alice@x.io", PwA) /\ History(s, FALSE)
    \/ login_create(s) /\ History(s, FALSE)
    \/ revokeAllTokens(s, 1) /\ History(s, FALSE)
    \/ cleanupExpiredTokens_findMany(s) /\ History(s, FALSE)
    \/ cleanupExpiredTokens_updateMany(s) /\ History(s, FALSE)
    \/ Return(s) /\ History(s, FALSE)

SweepNext ==
    \/ Elapse
    \/ \E s \in Slots : SweepCall(s)

SweepSpec == Init /\ [][SweepNext]_vars

\* Protected routes: requests to the bank routes in slot 1, and in slot 2 the
\* calls that change or delete the user of the token meanwhile.
Bearer(token) == Header(<<Atom("Bearer"), Space, Jwt(token)>>)
AccessTokens ==
    {generateAccessToken(JwtPayload(Alice), 0), generateAccessToken(JwtPayload(Bob), 0)}
AuthHeaders ==
    {NoHeader, Header(<<>>), Bearer(ForgedToken)}
    \cup {Bearer(token) : token \in AccessTokens}
    \cup {Bearer(generateRefreshToken(JwtPayload(Bob), 0))}
    \cup {Header(<<Atom("bearer"), Space, Jwt(generateAccessToken(JwtPayload(Bob), 0))>>),
          Header(<<Atom("Bearer"), Space, Space, Jwt(generateAccessToken(JwtPayload(Bob), 0))>>),
          Header(<<Atom("Bearer"), Jwt(generateAccessToken(JwtPayload(Bob), 0))>>),
          Header(<<Atom("Bearer"), Space>>)}
RoleUpdates ==
    {[email |-> "", username |-> "", phone |-> "", role |-> role] : role \in {"OWNER", "KASIR"}}
RouteIssues == {<<>>, <<[path |-> <<"params", "id">>, message |-> "Invalid ID format"]>>}

AccessNext ==
    \/ Tick
    \/ \E authHeader \in AuthHeaders, route \in BankRoutes, issues \in RouteIssues :
            authenticate(1, authHeader, route, issues)
                /\ UNCHANGED <<consumed, loggedOut, pwRevoked, limiter, passed>>
    \/ authenticate_findUnique(1) /\ UNCHANGED <<consumed, loggedOut, pwRevoked, limiter, passed>>
    \/ controller(1) /\ UNCHANGED <<consumed, loggedOut, pwRevoked, limiter, passed>>
    \/ app_errorHandler(1) /\ UNCHANGED <<consumed, loggedOut, pwRevoked, limiter, passed>>
    \/ \E userData \in RoleUpdates :
            updateUser_findUnique(2, Bob.id, userData) /\ History(2, FALSE)
    \/ updateUser_update(2) /\ History(2, FALSE)
    \/ deleteUser_findUnique(2, Bob.id) /\ History(2, FALSE)
    \/ deleteUser_delete(2) /\ History(2, FALSE)
    \/ \E s \in Slots : Return(s) /\ History(s, FALSE)

AccessSpec == Init /\ [][AccessNext]_vars

\* Parents and the rows that reference them: creates, updates and deletes of
\* a bank, a branch or a color, one call at a time, while other services
\* insert referencing rows between the store accesses of the call.
Parents == {"bank", "branch", "color"}
FreshCode(kind) ==
    CASE kind = "bank" -> <<"X", "Y", "Z">>
      [] kind = "branch" -> <<"M", "D", "N">>
      [] kind = "color" -> <<"#", "0", "0", "0", "0", "F", "F">>
Recode(kind) == [code |-> FreshCode(kind), name |-> "", address |-> ""]
ParentCodes == {row.code : row \in UNION {tables[kind] : kind \in DOMAIN tables}}

IntegrityInit ==
    /\ EntityInit
    /\ DOMAIN tables \subseteq Parents

IntegrityNext ==
    \/ \E kind \in DOMAIN tables : \E data \in CreateData(kind) :
            /\ data.code = FreshCode(kind)
            /\ createEntity_findUnique(1, kind, data)
            /\ UNCHANGED <<consumed, loggedOut, pwRevoked, limiter, passed>>
    \/ createEntity_findUniqueNext(1) /\ UNCHANGED <<consumed, loggedOut, pwRevoked, limiter, passed>>
    \/ entity_create(1) /\ UNCHANGED <<consumed, loggedOut, pwRevoked, limiter, passed>>
    \/ \E kind \in DOMAIN tables, id \in {1, 2} :
            updateEntity_findUnique(1, kind, id, Recode(kind))
                /\ UNCHANGED <<consumed, loggedOut, pwRevoked, limiter, passed>>
    \/ updateEntity_findUniqueNext(1) /\ UNCHANGED <<consumed, loggedOut, pwRevoked, limiter, passed>>
    \/ entity_update(1) /\ UNCHANGED <<consumed, loggedOut, pwRevoked, limiter, passed>>
    \/ \E kind \in DOMAIN tables, id \in {1, 2} :
            deleteEntity_findUnique(1, kind, id)
                /\ UNCHANGED <<consumed, loggedOut, pwRevoked, limiter, passed>>
    \/ deleteEntity_count(1) /\ UNCHANGED <<consumed, loggedOut, pwRevoked, limiter, passed>>
    \/ entity_delete(1) /\ UNCHANGED <<consumed, loggedOut, pwRevoked, limiter, passed>>
    \/ \E kind \in DOMAIN tables : \E relation \in Relations(kind), parentCode \in ParentCodes :
            child_create(relation, parentCode)
                /\ UNCHANGED <<consumed, loggedOut, pwRevoked, limiter, passed>>
    \/ Return(1) /\ History(1, FALSE)

IntegritySpec == IntegrityInit /\ [][IntegrityNext]_vars

\* A password change in slot 2 while logins and refreshes of the same user
\* are in flight in slot 1, interleaved at their store accesses.
ChangeNext ==
    \/ \E password \in {PwA, PwB} : login_findUnique(1, "alice@x.io", password) /\ History(1, FALSE)
    \/ login_create(1) /\ History(1, FALSE)
    \/ \E token \in Presentable : refreshToken_findFirst(1, token) /\ History(1, FALSE)
    \/ refreshToken_update(1) /\ History(1, FALSE)
    \/ refreshToken_create(1) /\ History(1, FALSE)
    \/ \E currentPassword \in {PwA, PwB}, newPassword \in {PwA, PwB} :
            changePassword_findUnique(2, Alice.id, currentPassword, newPassword)
                /\ History(2, FALSE)
    \/ changePassword_update(2) /\ History(2, FALSE)
    \/ changePassword_updateMany(2) /\ History(2, FALSE)
    \/ \E s \in Slots : Return(s) /\ History(s, FALSE)

ChangeSpec == Init /\ [][ChangeNext]_vars

\* The two tokens of a pair, each presented where the other belongs: logins
\* issue pairs, and a client sends either token of a pair in the
\* Authorization header of a bank route or in the body of a refresh request.
AccessOf(refreshToken) ==
    generateAccessToken(decodeToken(refreshToken), refreshToken.rest[4])
IssuedTokens == issued \cup {AccessOf(token) : token \in issued}

TokenNext ==
    \/ login_findUnique(1, "bobby@x.io", PwA) /\ History(1, FALSE)
    \/ login_create(1) /\ History(1, FALSE)
    \/ \E token \in IssuedTokens : refreshToken_findFirst(1, token) /\ History(1, FALSE)
    \/ refreshToken_update(1) /\ History(1, FALSE)
    \/ refreshToken_create(1) /\ History(1, FALSE)
    \/ \E token \in IssuedTokens, route \in BankRoutes :
            authenticate(1, Bearer(token), route, <<>>)
                /\ UNCHANGED <<consumed, loggedOut, pwRevoked, limiter, passed>>
    \/ authenticate_findUnique(1) /\ UNCHANGED <<consumed, loggedOut, pwRevoked, limiter, passed>>
    \/ controller(1) /\ UNCHANGED <<consumed, loggedOut, pwRevoked, limiter, passed>>
    \/ app_errorHandler(1) /\ UNCHANGED <<consumed, loggedOut, pwRevoked, limiter, passed>>
    \/ \E userId \in {Bob.id} : revokeAllTokens(1, userId) /\ History(1, FALSE)
    \/ Return(1) /\ History(1, FALSE)
    \/ Tick

TokenSpec == Init /\ [][TokenNext]_vars

\* The limiter alone: one middleware instance, requests of Alice, of Bob and
\* without req.user, and the clock.
RateInit ==
    /\ users = {Alice, Bob}
    /\ userSeq = 2
    /\ refreshTokens = <<>>
    /\ now = 0
    /\ calls = [s \in Slots |-> Idle]
    /\ tables = [kind \in Kinds |-> InitialRows(kind)]
    /\ tableSeq = [kind \in Kinds |-> Cardinality(InitialRows(kind))]
    /\ children = InitialChildren
    /\ rowToken = <<>>
    /\ \E maxRequests \in 0..MaxRequests, windowMs \in 1..MaxWindow :
            limiter = [maxRequests |-> maxRequests, windowMs |-> windowMs, requests |-> <<>>]
    /\ passed = <<>>
    /\ consumed = {}
    /\ loggedOut = {}
    /\ pwRevoked = {}

RateNext ==
    \/ \E user \in users \cup {NoUser} :
            rateLimitPerUser(1, user) /\ UNCHANGED <<consumed, loggedOut, pwRevoked>>
    \/ app_errorHandler(1) /\ UNCHANGED <<consumed, loggedOut, pwRevoked, limiter, passed>>
    \/ Return(1) /\ History(1, FALSE)
    \/ Date_now

RateSpec == RateInit /\ [][RateNext]_vars

\* ------------------------------------------------------------------ claims
Done(s, op) == calls[s].pc = "done" /\ calls[s].op = op

\* When call c started, no refresh token had been issued twice (two tokens
\* signed for the same user within the same second are the same string).
TokensDistinct(c) ==
    \A i, j \in DOMAIN c.preRows : i # j => rowToken[i] # rowToken[j]

\* C1: refresh tokens are single-use: once refreshToken(tokenA) has succeeded,
\* every later refreshToken(tokenA) fails with AuthenticationError and changes
\* no RefreshToken row (a token that was issued again since does not count).
C1_ReplayIsRejected ==
    \A s \in Slots :
        (Done(s, "refreshToken") /\ calls[s].token \in consumed)
            => /\ calls[s].status = "AuthenticationError"
               /\ refreshTokens = calls[s].preRows

\* C2: of two refreshToken calls that present the same token and overlap, at
\* most one succeeds, and at most one new active row results.
C2_AtMostOneWinner ==
    \A s, t \in Slots :
        (/\ s # t
         /\ Done(s, "refreshToken") /\ Done(t, "refreshToken")
         /\ calls[s].token = calls[t].token
         /\ t \in calls[s].during)
            => ~(calls[s].status = "ok" /\ calls[t].status = "ok")

\* C3: after changePassword succeeded, every refresh token of that user that
\* was active before the call is rejected with AuthenticationError by any
\* later refreshToken call.
C3_OldTokensRejected ==
    \A s \in Slots :
        (Done(s, "refreshToken") /\ calls[s].token \in pwRevoked)
            => calls[s].status = "AuthenticationError"

\* The rows of `rows` whose stored hash matches the token.
Matching(rows, token) ==
    {i \in DOMAIN rows : verifyPassword(token, rows[i].hashedToken)}

\* C4: rotation invariant: a successful refreshToken marks exactly the rows
\* whose hash matches the presented token as revoked, inserts exactly one new
\* active row of the same user holding the hash of the new refresh token, and
\* leaves every other row unchanged; a failed call changes no row.  Stated for
\* the calls that start when all issued tokens are distinct.
C4_Rotation ==
    \A s \in Slots :
        (Done(s, "refreshToken") /\ TokensDistinct(calls[s])) =>
            LET c == calls[s]
                pre == c.preRows
            IN  IF c.status = "ok"
                THEN /\ Len(refreshTokens) = Len(pre) + 1
                     /\ refreshTokens[Len(pre) + 1] =
                            [userId |-> c.userId,
                             hashedToken |-> hashPassword(c.newTokens.refreshToken),
                             revoked |-> FALSE,
                             createdAt |-> refreshTokens[Len(pre) + 1].createdAt]
                     /\ \A i \in DOMAIN pre :
                            refreshTokens[i] =
                                IF i \in Matching(pre, c.token)
                                THEN [pre[i] EXCEPT !.revoked = TRUE]
                                ELSE pre[i]
                ELSE refreshTokens = pre

\* C5: after logout(userId, T) returned for a token T that was active for the
\* user, a later refreshToken(T) fails with AuthenticationError.  Stated for
\* the calls that start when all issued tokens are distinct.
C5_LoggedOutTokenRejected ==
    \A s \in Slots :
        (Done(s, "refreshToken") /\ calls[s].token \in loggedOut /\ TokensDistinct(calls[s]))
            => calls[s].status = "AuthenticationError"

\* The rows that differ between two versions of the store.
Changed(pre, post) == {i \in DOMAIN pre : post[i] # pre[i]}

\* C6: logout(userId, token) never raises; it revokes at most one row, an
\* active row of that user whose hash matches the token; and it is idempotent:
\* the same call made once more leaves the store as the first call left it.
\* Stated for the calls that start when all issued tokens are distinct.
C6_LogoutIdempotent ==
    \A s \in Slots :
        (Done(s, "logout") /\ TokensDistinct(calls[s])) =>
            LET c == calls[s]
                pre == c.preRows
            IN  /\ c.status = "ok"
                /\ Len(refreshTokens) = Len(pre)
                /\ Cardinality(Changed(pre, refreshTokens)) <= 1
                /\ \A i \in Changed(pre, refreshTokens) :
                        /\ pre[i].userId = c.userId
                        /\ ~pre[i].revoked
                        /\ verifyPassword(c.token, pre[i].hashedToken)
                        /\ refreshTokens[i] = [pre[i] EXCEPT !.revoked = TRUE]
                /\ c.again => refreshTokens = pre

\* C7: logout(userId) without a token and revokeAllTokens(userId) leave no
\* active row of userId, and change no row of another user and no User row.
C7_RevokeAllFrame ==
    \A s \in Slots :
        (Done(s, "logoutAll") \/ Done(s, "revokeAllTokens")) =>
            LET c == calls[s]
                pre == c.preRows
            IN  /\ \A i \in DOMAIN refreshTokens :
                        refreshTokens[i].userId = c.userId => refreshTokens[i].revoked
                /\ Len(refreshTokens) = Len(pre)
                /\ \A i \in DOMAIN pre :
                        pre[i].userId # c.userId => refreshTokens[i] = pre[i]
                /\ users = c.preUsers

C7_Witness ==
    \E s \in Slots :
        /\ Done(s, "logoutAll") \/ Done(s, "revokeAllTokens")
        /\ \E i, j \in DOMAIN calls[s].preRows :
                /\ calls[s].preRows[i].userId = calls[s].userId
                /\ ~calls[s].preRows[i].revoked
                /\ calls[s].preRows[j].userId # calls[s].userId
                /\ ~calls[s].preRows[j].revoked

\* C8: revoked is terminal: no step turns a revoked row back to revoked=false,
\* no row disappears, and a row is created with revoked=false.
C8_RevokedIsTerminal ==
    [][/\ Len(refreshTokens') >= Len(refreshTokens)
       /\ \A i \in DOMAIN refreshTokens :
            refreshTokens[i].revoked => refreshTokens'[i].revoked
       /\ \A i \in DOMAIN refreshTokens' :
            i > Len(refreshTokens) => ~refreshTokens'[i].revoked]_vars

C8_Witness ==
    \E i, j \in DOMAIN refreshTokens :
        /\ i < j
        /\ refreshTokens[i].revoked
        /\ ~refreshTokens[j].revoked
        /\ refreshTokens[i].userId = refreshTokens[j].userId

\* C9: login fails in the same way for an unknown email and for a wrong
\* password (AuthenticationError "Invalid email or password", no row created,
\* no user changed); a successful login creates exactly one new active row
\* for that user.
C9_LoginOutcome ==
    \A s \in Slots :
        Done(s, "login") =>
            LET c == calls[s]
                known == {u \in c.preUsers : u.email = c.email}
                good == {u \in known : verifyPassword(c.password, u.password)}
            IN  /\ users = c.preUsers
                /\ IF good = {}
                   THEN /\ c.status = "AuthenticationError"
                        /\ c.message = "Invalid email or password"
                        /\ refreshTokens = c.preRows
                   ELSE /\ c.status = "ok"
                        /\ Len(refreshTokens) = Len(c.preRows) + 1
                        /\ SubSeq(refreshTokens, 1, Len(c.preRows)) = c.preRows
                        /\ refreshTokens[Len(refreshTokens)].userId \in {u.id : u \in good}
                        /\ ~refreshTokens[Len(refreshTokens)].revoked
                        /\ verifyPassword(c.newTokens.refreshToken,
                                          refreshTokens[Len(refreshTokens)].hashedToken)

\* A login with an unknown email has failed while sessions exist.
C9_Witness ==
    \E s \in Slots :
        /\ Done(s, "login")
        /\ calls[s].status = "AuthenticationError"
        /\ \A u \in calls[s].preUsers : u.email # calls[s].email
        /\ Len(refreshTokens) > 0

\* The message register / createUser gives for a conflict on each field.
ConflictMessage ==
    [email |-> "User with this email already exists",
     username |-> "Username already taken",
     phone |-> "Phone number already registered",
     code |-> "User code already exists"]

\* C10: register and createUser raise ConflictError whenever an existing user
\* has the same email, username, phone or code, and the error names the first
\* field, in the order email, username, phone, code, that some existing user
\* matches.
C10_FirstConflictInPriorityOrder ==
    \A s \in Slots :
        (Done(s, "register") \/ Done(s, "createUser")) =>
            LET c == calls[s]
                hit == [email |-> \E u \in c.preUsers : u.email = c.email,
                        username |-> \E u \in c.preUsers : u.username = c.username,
                        phone |-> \E u \in c.preUsers : u.phone = c.phone,
                        code |-> \E u \in c.preUsers : u.code = c.code]
                first == IF hit.email THEN "email"
                         ELSE IF hit.username THEN "username"
                         ELSE IF hit.phone THEN "phone" ELSE "code"
            IN  (hit.email \/ hit.username \/ hit.phone \/ hit.code)
                    => /\ c.status = "ConflictError"
                       /\ c.message = ConflictMessage[first]
                       /\ users = c.preUsers

\* C11: after any sequence of register, createUser, updateUser, updateProfile
\* and deleteUser calls, overlapping or not, no two User rows share an id, an
\* email, a username, a phone or a code.
C11_UsersUnique ==
    \A u, v \in users :
        u # v => /\ u.id # v.id
                 /\ u.email # v.email
                 /\ u.username # v.username
                 /\ u.phone # v.phone
                 /\ u.code # v.code

\* Two calls passed their own conflict search for the same value, and the
\* store refused the later write.
C11_Witness ==
    \E s \in Slots :
        /\ calls[s].pc = "done"
        /\ calls[s].op \in {"register", "updateUser", "updateProfile"}
        /\ calls[s].message = "Unique constraint failed"
        /\ \E u \in users : u.id > Bob.id

\* The strength rules a password breaks, by the message of each rule.
BrokenRules(password) ==
    LET cs == Chars(password)
        none(S) == \A i \in 1..Len(cs) : cs[i] \notin S
    IN  (IF Len(cs) >= 8 THEN {} ELSE {"Password must be at least 8 characters long"})
        \cup (IF none(Lower) THEN {"Password must contain at least one lowercase letter"} ELSE {})
        \cup (IF none(Upper) THEN {"Password must contain at least one uppercase letter"} ELSE {})
        \cup (IF none(Digit) THEN {"Password must contain at least one number"} ELSE {})
        \cup (IF none(Special) THEN {"Password must contain at least one special character"} ELSE {})

\* Some existing user holds one of the four unique values of the request.
Conflicts(c) ==
    \E u \in c.preUsers : \/ u.email = c.email \/ u.username = c.username
                          \/ u.phone = c.phone \/ u.code = c.code

\* C12: register rejects a password that breaks a strength rule with
\* ValidationError whose details list every broken rule and nothing else; a
\* register call rejected for a conflict or for the password inserts no User
\* row and leaves the store unchanged; and validatePasswordStrength returns
\* isValid = TRUE exactly when its error list is empty.
C12_WeakPasswordRejected ==
    \A s \in Slots :
        Done(s, "register") =>
            LET c == calls[s]
                v == validatePasswordStrength(c.password)
                listed == {c.details[i] : i \in DOMAIN c.details} \ {", "}
            IN  /\ (~Conflicts(c) /\ BrokenRules(c.password) # {})
                        => /\ c.status = "ValidationError"
                           /\ listed = BrokenRules(c.password)
                /\ (~Conflicts(c) /\ BrokenRules(c.password) = {}) => c.status = "ok"
                /\ c.status \in {"ConflictError", "ValidationError"}
                        => /\ users = c.preUsers
                           /\ refreshTokens = c.preRows
                /\ v.isValid <=> (v.errors = <<>>)
                /\ v.isValid <=> (BrokenRules(c.password) = {})

C12_Witness ==
    \E s \in Slots :
        /\ Done(s, "register")
        /\ calls[s].status = "ValidationError"
        /\ Cardinality(BrokenRules(calls[s].password)) > 1
        /\ Len(calls[s].details) > 1

\* C13: changePassword fails with AuthenticationError when the current
\* password does not verify, else with ValidationError when the new password
\* breaks a strength rule, else with ValidationError when the new password is
\* the current one; a failed call leaves the users and every RefreshToken row
\* unchanged.
C13_ChangePasswordFailures ==
    \A s \in Slots :
        Done(s, "changePassword") =>
            LET c == calls[s]
                target == {u \in c.preUsers : u.id = c.userId}
            IN  /\ \A u \in target :
                        IF ~verifyPassword(c.password, u.password)
                        THEN /\ c.status = "AuthenticationError"
                             /\ c.message = "Current password is incorrect"
                        ELSE IF BrokenRules(c.newPassword) # {}
                        THEN /\ c.status = "ValidationError"
                             /\ c.message = "New password does not meet requirements"
                        ELSE IF verifyPassword(c.newPassword, u.password)
                        THEN /\ c.status = "ValidationError"
                             /\ c.message = "New password must be different from current password"
                        ELSE c.status = "ok"
                /\ c.status # "ok" => users = c.preUsers /\ refreshTokens = c.preRows

\* A call with a wrong current password and a weak new password has failed
\* while the user held an active session.
C13_Witness ==
    \E s \in Slots :
        /\ Done(s, "changePassword")
        /\ calls[s].status = "AuthenticationError"
        /\ BrokenRules(calls[s].newPassword) # {}
        /\ \E i \in DOMAIN refreshTokens :
                refreshTokens[i].userId = calls[s].userId /\ ~refreshTokens[i].revoked

\* A query value read as a decimal numeral: a number, or a text made of
\* optional white space, an optional sign, digits and an optional fraction,
\* with nothing else.  `whole` is its integer part.
Numeral(v) ==
    IF v.kind = "number" THEN [ok |-> TRUE, whole |-> v.n]
    ELSE IF v.kind # "string" THEN [ok |-> FALSE, whole |-> 0]
    ELSE
    LET t == v.chars
        IsDec(ch) == \E d \in DOMAIN DecimalDigits : DecimalDigits[d] = ch
        Dec(ch) == (CHOOSE d \in DOMAIN DecimalDigits : DecimalDigits[d] = ch) - 1
        shapes == {<<i, j>> \in (1..Len(t)) \X (1..Len(t)) :
                    /\ i <= j
                    /\ \A k \in i..j : IsDec(t[k])
                    /\ \A k \in 1..(i - 1) : t[k] = " " \/ (k = i - 1 /\ t[k] \in {"-", "+"})
                    /\ \/ j = Len(t)
                       \/ t[j + 1] = "." /\ \A k \in (j + 2)..Len(t) : IsDec(t[k])}
    IN  IF shapes = {} THEN [ok |-> FALSE, whole |-> 0]
        ELSE LET ij == CHOOSE x \in shapes : TRUE
                 i == ij[1]
                 j == ij[2]
                 F[k \in (i - 1)..j] == IF k = i - 1 THEN 0 ELSE F[k - 1] * 10 + Dec(t[k])
             IN  [ok |-> TRUE,
                  whole |-> IF i > 1 /\ t[i - 1] = "-" THEN -F[j] ELSE F[j]]

\* The text of a value starts, after white space and a sign, with a digit.
StartsWithDigit(v) ==
    /\ v.kind = "string"
    /\ \E i \in 1..Len(v.chars) :
            /\ \E d \in DOMAIN DecimalDigits : DecimalDigits[d] = v.chars[i]
            /\ \A k \in 1..(i - 1) :
                    v.chars[k] = " " \/ (k = i - 1 /\ v.chars[k] \in {"-", "+"})

Least(a, b) == IF a < b THEN a ELSE b

\* What every result of parsePaginationParams satisfies: the ranges of page
\* and limit, the skip, and the sort order.
PageWindow(c) ==
    LET r == c.result
    IN  /\ r.page >= 1
        /\ 1 <= r.limit /\ r.limit <= c.maxLimit
        /\ r.skip = (r.page - 1) * r.limit /\ r.skip >= 0
        /\ r.sortOrder = IF c.query.sortOrder \in {Txt(<<"a", "s", "c">>), Txt(<<"d", "e", "s", "c">>)}
                         THEN c.query.sortOrder ELSE Txt(<<"d", "e", "s", "c">>)
        /\ (Numeral(c.query.limit).ok /\ Numeral(c.query.limit).whole > c.maxLimit)
                => r.limit = c.maxLimit

\* C14 (as amended): for every query and every maxLimit >= 1 the result has
\* page >= 1, 1 <= limit <= maxLimit and skip = (page - 1) * limit >= 0; a page
\* that is absent, a non-positive number, or a text that does not start with a
\* digit becomes 1, and a limit of that kind becomes 10 (then clamped); a page
\* or limit that is a whole decimal numeral >= 1 is taken at its integer part;
\* a limit above maxLimit becomes maxLimit; sortOrder is 'desc' unless the
\* input is exactly 'asc' or 'desc'.
C14_ParsePaginationParams ==
    \A s \in Slots :
        Done(s, "parsePaginationParams") =>
            LET c == calls[s]
                r == c.result
                Defaulted(v) == \/ v.kind = "undefined"
                                \/ Numeral(v).ok /\ Numeral(v).whole <= 0
                                \/ v.kind = "string" /\ ~StartsWithDigit(v)
                Taken(v) == Numeral(v).ok /\ Numeral(v).whole >= 1
            IN  /\ PageWindow(c)
                /\ Defaulted(c.query.page) => r.page = 1
                /\ Defaulted(c.query.limit) => r.limit = Least(10, c.maxLimit)
                /\ Taken(c.query.page) => r.page = Numeral(c.query.page).whole
                /\ Taken(c.query.limit)
                        => r.limit = Least(Numeral(c.query.limit).whole, c.maxLimit)

\* C14 (as stated): the same, with every page that is not a numeral becoming 1
\* and every limit that is not a numeral becoming 10 (then clamped).
C14_NonNumericBecomesDefault ==
    \A s \in Slots :
        Done(s, "parsePaginationParams") =>
            LET c == calls[s]
                r == c.result
                Defaulted(v) == ~Numeral(v).ok \/ Numeral(v).whole <= 0
            IN  /\ PageWindow(c)
                /\ Defaulted(c.query.page) => r.page = 1
                /\ Defaulted(c.query.limit) => r.limit = Least(10, c.maxLimit)

\* A page that starts with a digit and is no numeral, and a limit above
\* maxLimit, have been parsed.
C14_Witness ==
    \E s \in Slots :
        /\ Done(s, "parsePaginationParams")
        /\ calls[s].query.page = Txt(<<"2", "a">>)
        /\ calls[s].query.limit = Num(250)
        /\ calls[s].result.page = 2
        /\ calls[s].result.limit = calls[s].maxLimit

\* C15: for page >= 1, limit >= 1 and total >= 0, createPaginatedResult gives
\* totalPages = ceil(total / limit) (the least number of pages of `limit` rows
\* that hold `total` rows), hasNext = (page < totalPages), hasPrev = (page > 1);
\* total = 0 gives totalPages = 0 and hasNext = FALSE.
C15_PaginationMetadata ==
    \A s \in Slots :
        Done(s, "createPaginatedResult") =>
            LET q == calls[s].query
                m == calls[s].result.pagination
            IN  /\ m.totalPages * q.limit >= q.total
                /\ m.totalPages >= 0
                /\ m.totalPages > 0 => (m.totalPages - 1) * q.limit < q.total
                /\ m.hasNext <=> (q.page < m.totalPages)
                /\ m.hasPrev <=> (q.page > 1)
                /\ q.total = 0 => (m.totalPages = 0 /\ ~m.hasNext)
                /\ m.page = q.page /\ m.limit = q.limit /\ m.total = q.total

C15_Witness ==
    \E s \in Slots :
        /\ Done(s, "createPaginatedResult")
        /\ calls[s].query.total % calls[s].query.limit # 0
        /\ calls[s].query.page = calls[s].result.pagination.totalPages
        /\ calls[s].query.page > 1

\* C16: a create whose code equals the code of a row of the table ends with
\* ConflictError and the message that names the code, and leaves the table as it
\* was; createBank with a code of a length other than 3 that equals no row's code
\* ends with ValidationError and leaves the table as it was.
C16_CreateConflict ==
    \A s \in Slots : Done(s, "createEntity") =>
        LET c == calls[s]
            matches == \E row \in c.preTables[c.kind] : row.code = c.data.code
        IN  /\ matches =>
                /\ c.status = "ConflictError"
                /\ c.message = ExistsMessage(c.kind, "code")
                /\ tables = c.preTables
            /\ (c.kind = "bank" /\ Len(c.data.code) # 3 /\ ~matches) =>
                /\ c.status = "ValidationError"
                /\ tables = c.preTables

\* A create is refused for the code of a row that an earlier create inserted.
C16_Witness ==
    \E s \in Slots :
        /\ Done(s, "createEntity")
        /\ calls[s].status = "ConflictError"
        /\ \E row \in tables[calls[s].kind] :
            row.code = calls[s].data.code /\ row.id > Cardinality(InitialRows(calls[s].kind))

\* The row an update addresses, as the call found the table.
Target(c) == {row \in c.preTables[c.kind] : row.id = c.id}
\* The unique columns whose new value is held by another row.
Taken(c) ==
    {k \in DOMAIN UniqueFields(c.kind) :
        /\ Has(c.data, UniqueFields(c.kind)[k])
        /\ \E row \in c.preTables[c.kind] :
            row.id # c.id /\ row[UniqueFields(c.kind)[k]] = c.data[UniqueFields(c.kind)[k]]}
BadCode(c) == Has(c.data, "code") /\ CodeError(c.kind, c.data.code) # ""

Referencing(c) ==
    {child \in c.preChildren :
        /\ child.relation \in Relations(c.kind)
        /\ \E row \in Target(c) : child.parentCode = row.code}

\* C18: a delete of an absent id ends with NotFoundError; a delete of a row whose
\* code is referenced ends with ConflictError and deletes nothing; a delete of an
\* unreferenced row removes it.
C18_DeleteOutcome ==
    \A s \in Slots : Done(s, "deleteEntity") =>
        LET c == calls[s]
        IN  /\ Target(c) = {} => c.status = "NotFoundError"
            /\ (Target(c) # {} /\ Referencing(c) # {}) =>
                c.status = "ConflictError" /\ tables = c.preTables
            /\ (Target(c) # {} /\ Referencing(c) = {}) =>
                /\ c.status = "ok"
                /\ ~\E row \in tables[c.kind] : row.id = c.id

\* The filters of a list query, read as the conjunction of the search predicate
\* and every discriminator that is supplied.
Supplied(query) ==
    {d \in {"priceType", "module", "menu", "subMenu"} : query[d] # ""}
        \cup {d \in {"ownerCode", "role"} : query[d] # <<>>}
SearchPredicate(kind, row, search) ==
    CASE kind = "branch" ->
            \/ containsInsensitive(row.name, search)
            \/ containsInsensitive(row.code, search)
            \/ containsInsensitive(row.address, search)
      [] kind = "phone" ->
            containsInsensitive(row.phone, search) \/ containsInsensitive(row.ownerCode, search)
      [] kind = "userPermission" -> containsInsensitive(row.role, search)
Wanted(kind, row, query) ==
    /\ SearchPredicate(kind, row, query.search)
    /\ \A d \in Supplied(query) : row[d] = query[d]

\* C19: a list call with a search term and at least one discriminator returns
\* only rows that satisfy the search predicate and every supplied discriminator,
\* and its total counts exactly those rows.
C19_SearchAndDiscriminators ==
    \A s \in Slots : (Done(s, "getList") /\ calls[s].status = "ok") =>
        LET c == calls[s]
        IN  (c.query.search # <<>> /\ Supplied(c.query) # {}) =>
                /\ \A i \in DOMAIN c.result.data : Wanted(c.kind, c.result.data[i], c.query)
                /\ c.result.pagination.total =
                        Cardinality({row \in tables[c.kind] : Wanted(c.kind, row, c.query)})

\* C20: a ValidationError with non-null details is answered with 400,
\* VALIDATION_ERROR and those details; an error of another AppError class with
\* its own status code; and an error that no rule of the handler translates and
\* that is not operational with 500 and a generic message.
C20_ErrorResponse ==
    \A s \in Slots : Done(s, "request") =>
        LET err == calls[s].error
            response == calls[s].result
        IN  /\ (InstanceOf(err, "ValidationError") /\ err.details.present) =>
                /\ response.status = 400
                /\ response.code = "VALIDATION_ERROR"
                /\ response.details = err.details
            /\ InstanceOf(err, "AppError") => response.status = err.statusCode
            /\ (err.class \in {"TypeError", "SyntaxError"} /\ ~err.body) =>
                response.status = 500 /\ response.message = "Something went wrong"

\* C21: a request that rateLimitPerUser rejects, because the count of the user
\* has reached maxRequests inside the current window, is answered with
\* TooManyRequestsError: status 429 and code TOO_MANY_REQUESTS_ERROR.
C21_RateLimitIs429 ==
    \A s \in Slots :
        LET c == calls[s] IN
        (c.op = "rateLimitPerUser" /\ c.pc \in {"thrown", "done"} /\ c.status # "ok") =>
            /\ c.error.class = "TooManyRequestsError"
            /\ c.pc = "done" => (c.result.status = 429 /\ c.result.code = "TOO_MANY_REQUESTS_ERROR")

\* C22: cleanupExpiredTokens revokes every row that is not revoked and was
\* created more than 7 days before the sweep selects its rows, returns the
\* number of these rows, and writes no other row: not a row of 7 days or
\* less, not a row that was revoked already, not a row inserted after the
\* selection.
Swept(c) ==
    {i \in DOMAIN c.preRows :
        ~c.preRows[i].revoked /\ now - c.preRows[i].createdAt > CleanupAge}

C22_Sweep ==
    [][\A s \in Slots :
        (calls'[s].op = "cleanupExpiredTokens" /\ calls[s].pc # "done" /\ calls'[s].pc = "done") =>
            LET c == calls'[s] IN
            /\ c.status = "ok" /\ c.count = Cardinality(Swept(c))
            /\ DOMAIN refreshTokens' = DOMAIN refreshTokens
            /\ \A i \in DOMAIN refreshTokens :
                    refreshTokens'[i] = IF i \in Swept(c)
                                        THEN [refreshTokens[i] EXCEPT !.revoked = TRUE]
                                        ELSE refreshTokens[i]]_vars

\* A sweep has revoked the old row; a row of exactly 7 days and a row inserted
\* while the sweep was running are still active.
C22_Witness ==
    \E s \in Slots :
        LET c == calls[s] IN
        /\ Done(s, "cleanupExpiredTokens") /\ c.count >= 1
        /\ \E i \in DOMAIN c.preRows :
                /\ now - c.preRows[i].createdAt = CleanupAge
                /\ ~refreshTokens[i].revoked
        /\ Len(refreshTokens) > Len(c.preRows)
        /\ ~refreshTokens[Len(refreshTokens)].revoked

\* C23: on a protected route the handler of the controller runs only for a
\* request whose Authorization header is 'Bearer <token>' with a token that
\* verifies and names an existing user, otherwise the request ends with
\* AuthenticationError (401); and only if the role this user has in the store
\* is in the role list of the route, otherwise it ends with AuthorizationError
\* (403). A rejected request never reaches the handler.
Verified(c) ==
    /\ c.header.present /\ Len(c.header.chars) = 3
    /\ c.header.chars[1] = Atom("Bearer") /\ c.header.chars[2] = Space
    /\ c.header.chars[3].text = ""
    /\ LET token == c.header.chars[3].jwt
       IN  IsJwt(token) /\ token.rest[6] = "mac" /\ now < token.rest[5]

Named(c) == {u \in users : u.id = c.header.chars[3].jwt.b72[2]}

\* What one step of a request through authenticate and authorize has to do.
\* With inOrder the middlewares of a route act in the order they are mounted:
\* a request that fails validate on a route with validate before authorize
\* ends with ValidationError whatever the role is.
AccessStep(s, inOrder) ==
    LET c == calls'[s] IN
    (c.op = "authenticate" /\ c.pc # calls[s].pc) =>
        /\ calls[s].pc = "idle" =>
                IF Verified(c) THEN c.pc = "authenticate_findUnique"
                ELSE c.pc = "thrown" /\ c.error.class = "AuthenticationError"
        /\ calls[s].pc = "authenticate_findUnique" =>
                IF Named(c) = {}
                THEN c.pc = "thrown" /\ c.error.class = "AuthenticationError"
                ELSE IF inOrder /\ c.route.validateFirst /\ c.issues # <<>>
                THEN c.pc = "thrown" /\ c.error.class = "ValidationError"
                ELSE IF \A u \in Named(c) : u.role \notin c.route.roles
                THEN c.pc = "thrown" /\ c.error.class = "AuthorizationError"
                ELSE IF c.issues # <<>>
                THEN c.pc = "thrown" /\ c.error.class = "ValidationError"
                ELSE c.pc = "controller"
        /\ calls[s].pc = "thrown" =>
                /\ c.pc = "done" /\ c.status # "ok"
                /\ c.error.class = "AuthenticationError" => c.result.status = 401
                /\ c.error.class = "AuthorizationError" => c.result.status = 403
        /\ c.pc = "done" /\ c.status = "ok" => calls[s].pc = "controller"

\* C23, as stated: a user whose role is not in the list of the route is
\* answered with AuthorizationError.
C23_AccessControl == [][\A s \in Slots : AccessStep(s, FALSE)]_vars

\* C23, with the order of the route.
C23_AccessOutcome == [][\A s \in Slots : AccessStep(s, TRUE)]_vars

\* The handler runs for a user whose role was changed after the token was
\* signed: the role of the store decided.
C23_Witness ==
    /\ calls[1].op = "authenticate" /\ calls[1].pc = "controller"
    /\ calls[1].user.role # decodeToken(calls[1].token).role
    /\ calls[1].user.role \in calls[1].route.roles

\* C24: when a user holds two or more active rows, refreshToken succeeds for
\* the unexpired token of each of them, and logout(userId, T) revokes the row
\* that was created for T, whichever active row findFirst returns.
RowsOf(c) ==
    {i \in DOMAIN c.preRows :
        rowToken[i] = c.token /\ c.preRows[i].userId = c.userId /\ ~c.preRows[i].revoked}

Sessions(c) ==
    {i \in DOMAIN c.preRows : c.preRows[i].userId = c.userId /\ ~c.preRows[i].revoked}

C24_EverySessionServed ==
    \A s \in Slots :
        LET c == calls[s] IN
        (RowsOf(c) # {} /\ Cardinality(Sessions(c)) >= 2) =>
            /\ (Done(s, "refreshToken") /\ verifyTokenOk(c.token, now)) => c.status = "ok"
            /\ Done(s, "logout") => \E i \in RowsOf(c) : refreshTokens[i].revoked

\* C25: every stored code is upper-case and no two rows of a table hold the
\* same code; and a create or update whose code, upper-cased, is the code of
\* another row ends with ConflictError in the service: the call never gets to
\* the insert or update of the store.
StoredClash(c) ==
    /\ Has(c.data, "code")
    /\ \E row \in c.preTables[c.kind] : row.id # c.id /\ row.code = toUpperCase(c.data.code)

C25_StoredCodeUnique ==
    /\ \A kind \in DOMAIN tables : \A r1, r2 \in tables[kind] :
            /\ r1.code = toUpperCase(r1.code)
            /\ r1.code = r2.code => r1 = r2
    /\ \A s \in Slots :
            LET c == calls[s] IN
            (/\ c.op \in {"createEntity", "updateEntity"}
             /\ StoredClash(c) /\ ~BadCode(c)
             /\ c.op = "updateEntity" => Target(c) # {}) =>
                /\ c.pc \notin {"create", "update"}
                /\ c.pc = "done" => c.status = "ConflictError"

Dangling == {child \in children :
                ~\E kind \in DOMAIN tables :
                    /\ child.relation \in Relations(kind)
                    /\ \E row \in tables[kind] : row.code = child.parentCode}

\* C26, as stated: every referencing row names the code of an existing parent,
\* and no step changes the code of a row that is referenced.
C26_ReferencedCodeFixed ==
    [][/\ Dangling' = {}
       /\ \A kind \in DOMAIN tables : \A row \in tables[kind] :
            (\E child \in children :
                child.relation \in Relations(kind) /\ child.parentCode = row.code) =>
            \A after \in tables'[kind] : after.id = row.id => after.code = row.code]_vars

\* C26: every referencing row names the code of an existing parent, in every
\* state that creates, updates and deletes of the parents reach, inserts of
\* referencing rows between the count and the delete of a parent included.
C26_ReferentialIntegrity == Dangling = {}

\* A delete counted no referencing row, one was inserted before the delete
\* reached the store, and the store refused the delete.
C26_Witness ==
    /\ Done(1, "deleteEntity") /\ calls[1].kind = "bank" /\ calls[1].count = 0
    /\ calls[1].status = "PrismaClientKnownRequestError"
    /\ calls[1].message = "Foreign key constraint failed"
    /\ \E child \in children : child.parentCode = calls[1].existing.code

\* C27: when changePassword has run together with a login or a refreshToken
\* of the same user that used the old password or a token issued before the
\* change, then, once both calls have finished, the user has no active row.
C27_ChangeForcesRelogin ==
    \A s, r \in Slots :
        LET p == calls[s]
            c == calls[r]
        IN  (/\ Done(s, "changePassword") /\ p.status = "ok"
             /\ c.pc = "done" /\ c.op \in {"login", "refreshToken"} /\ c.status = "ok"
             /\ c.userId = p.userId
             /\ s \in c.during \/ r \in p.during
             /\ c.op = "login" => c.password = p.password) =>
                ActiveRows(p.userId) = {}

\* C29: for page >= 1, limit >= 1 and total >= 0, the metadata of the body
\* that a controller builds with ApiResponse.paginated is the pagination
\* object the service built with createMetadata: the same page, limit, total,
\* totalPages, hasNext and hasPrev.
C29_SameMetadata ==
    \A s \in Slots :
        Done(s, "getUsers") =>
            LET service == calls[s].result.service.pagination
                metadata == calls[s].result.body.metadata
            IN  /\ metadata = service
                /\ metadata.page = calls[s].query.page
                /\ metadata.limit = calls[s].query.limit

\* A last page of several digits: the numbers went through their decimal text.
C29_Witness ==
    \E s \in Slots :
        /\ Done(s, "getUsers")
        /\ calls[s].query.page = 12 /\ calls[s].query.limit = 10
        /\ calls[s].result.body.metadata.totalPages = 12
        /\ ~calls[s].result.body.metadata.hasNext
        /\ calls[s].result.body.metadata.hasPrev

\* C30: authenticate accepts access tokens only, so a refresh token in the
\* Authorization header ends with AuthenticationError and never reaches the
\* handler; and refreshToken called with an access token ends with
\* AuthenticationError.
IsRefreshToken(token) == IsJwt(token) /\ token.rest[5] - token.rest[4] = RefreshTtl
IsAccessToken(token) == IsJwt(token) /\ token.rest[5] - token.rest[4] = AccessTtl

C30_TokenRolesApart ==
    \A s \in Slots :
        LET c == calls[s] IN
        /\ (c.op = "authenticate" /\ Len(c.header.chars) = 3
                /\ IsRefreshToken(c.header.chars[3].jwt)) =>
                /\ c.pc # "controller"
                /\ c.pc = "done" =>
                        c.status # "ok" /\ c.error.class = "AuthenticationError"
        /\ (Done(s, "refreshToken") /\ IsAccessToken(c.token)) =>
                c.status = "AuthenticationError"

\* What a step has to keep for the limiter to bound each user by `bound`
\* requests per window: in the window of each user at most `bound` requests
\* were passed on and the count is at most `bound`; a request after resetTime,
\* or the first of a user, opens a window with count 1; a request touches the
\* entry of its own user only; a request without req.user is passed on and
\* leaves the Map alone; and a request is passed on exactly when it ends well.
RateStep(bound) ==
    /\ \A u \in DOMAIN limiter'.requests :
            LET entry == limiter'.requests[u]
                inWindow == {i \in DOMAIN passed' :
                                /\ passed'[i].userId = u
                                /\ passed'[i].at >= entry.resetTime - limiter.windowMs
                                /\ passed'[i].at <= entry.resetTime}
            IN  entry.count <= bound /\ Cardinality(inWindow) <= bound
    /\ \A s \in Slots :
            LET c == calls'[s]
                u == c.user.id
            IN  (calls[s].pc = "idle" /\ c.op = "rateLimitPerUser") =>
                    /\ c.user = NoUser =>
                            c.pc = "done" /\ c.status = "ok" /\ limiter' = limiter /\ passed' = passed
                    /\ c.user # NoUser =>
                        /\ \A v \in DOMAIN limiter.requests \ {u} :
                                /\ v \in DOMAIN limiter'.requests
                                /\ limiter'.requests[v] = limiter.requests[v]
                        /\ (u \notin DOMAIN limiter.requests \/ now > limiter.requests[u].resetTime) =>
                                /\ limiter'.requests[u] =
                                        [count |-> 1, resetTime |-> now + limiter.windowMs]
                                /\ c.pc = "done" /\ c.status = "ok"
                        /\ (c.pc = "done" /\ c.status = "ok") <=>
                                passed' = Append(passed, [userId |-> u, at |-> now])
                        /\ c.pc # "done" => c.pc = "thrown" /\ passed' = passed /\ limiter' = limiter

\* C28, as stated: the bound is maxRequests.
C28_Bounded == [][RateStep(limiter.maxRequests)]_vars

\* C28, for a limiter that passes the request that opens a window whatever
\* maxRequests is: the bound is maxRequests, and 1 when maxRequests is less.
C28_BoundedFromOne ==
    [][RateStep(IF limiter.maxRequests < 1 THEN 1 ELSE limiter.maxRequests)]_vars

\* A user is refused at the limit of 2 in a window that is not the first one,
\* while another user has a window of its own.
C28_Witness ==
    /\ calls[1].op = "rateLimitPerUser" /\ calls[1].pc = "thrown"
    /\ limiter.maxRequests = 2
    /\ DOMAIN limiter.requests = {Alice.id, Bob.id}
    /\ limiter.requests[calls[1].user.id].count = 2
    /\ \E v \in DOMAIN limiter.requests : limiter.requests[v].count = 1
    /\ Len(passed) >= 4

========================================================================
